---- MODULE Spec2Model ----
(***************************************************************************)
(* Zima-Blue: the image-pool endpoint (aggregator, retry, response cache)   *)
(* and the wallpaper generation hook, modelled as state machines.          *)
(*                                                                         *)
(* The module holds several specifications over one set of variables; each *)
(* specification drives the variables of one component and leaves the      *)
(* others at their initial value:                                          *)
(*   SpecCache   MemoryCache (src/src/lib/cache.ts) under a clock          *)
(*   SpecRetry   one fetchWithRetry call, attempt by attempt               *)
(*   SpecAgg     one GET of the image-pool endpoint, upstream call by call *)
(*   SpecGet     concurrent GETs of the endpoint against the shared cache  *)
(*   SpecGen     generateAllWallpapers passes of the generation hook       *)
(*   SpecRender  the accent rectangles of one generateWallpaper call       *)
(***************************************************************************)
EXTENDS Integers, Sequences, FiniteSets, TLC

\* ------------------------------------------------------------------------
\* Bounds of the model
\* ------------------------------------------------------------------------

\* number of clock advances a behaviour of the cache specification may take
MaxAdvances == 3

\* the clock advances in steps of 30 s or 31 s: 60 s is 30+30, 61 s is 30+31
ClockSteps == {30000, 31000}

\* cache keys, payloads and ttlMinutes arguments used by the callers
Keys == {"k", "j"}
Payloads == {[v |-> 1], [v |-> 2]}
TTLMinutes == {0, 1}

\* the concurrent requests that call into the process-wide cache
Requests == {1, 2}

\* ------------------------------------------------------------------------
\* MemoryCache (src/src/lib/cache.ts)
\* ------------------------------------------------------------------------

\* what get returns when there is no (unexpired) entry
Null == [null |-> TRUE]

VARIABLES
    cache,      \* MemoryCache.cache: the Map, a function on the keys it holds
    now,        \* Date.now(), in milliseconds
    live,       \* history: for each key, the last set call that no
                \* delete/clear has followed: its arguments v and t, its
                \* time c, the request that made it (by) and the request
                \* whose entry it replaced (over, 0 when none)
    lastGet     \* history: key, caller and result of the get that just ran

\* the CacheEntry that set builds
CacheEntry(data, ttlMinutes, t) ==
    [data |-> data, timestamp |-> t, ttl |-> ttlMinutes * 60 * 1000]

\* Map.set
MapSet(m, k, e) == [x \in (DOMAIN m) \cup {k} |-> IF x = k THEN e ELSE m[x]]

\* Map.delete
MapDelete(m, k) == [x \in (DOMAIN m) \ {k} |-> m[x]]

\* the empty Map
EmptyMap == [x \in {} |-> Null]

\* an expiry test that is off by one at the boundary (>= for >)
ExpiredAtBoundary(e, t) == t - e.timestamp >= e.ttl

\* the expiry test of get and cleanup
Expired(e, t) == t - e.timestamp > e.ttl

\* a set that updates an existing entry in place and keeps its timestamp
CacheSetInPlace(m, k, data, ttlMinutes, t) ==
    MapSet(m, k, IF k \in DOMAIN m
                 THEN [m[k] EXCEPT !.data = data, !.ttl = ttlMinutes * 60 * 1000]
                 ELSE CacheEntry(data, ttlMinutes, t))

\* MemoryCache.set: the store after set(k, data, ttlMinutes) at time t
CacheSet(m, k, data, ttlMinutes, t) == MapSet(m, k, CacheEntry(data, ttlMinutes, t))

\* MemoryCache.get: the value returned by get(k) at time t
CacheGetResult(m, k, t) ==
    IF k \notin DOMAIN m THEN Null
    ELSE IF Expired(m[k], t) THEN Null
    ELSE m[k].data

\* a get that answers null for an expired entry but leaves it in the Map
CacheGetStoreKeeps(m, k, t) == m

\* MemoryCache.get: the store after get(k) at time t
CacheGetStore(m, k, t) ==
    IF k \notin DOMAIN m THEN m
    ELSE IF Expired(m[k], t) THEN MapDelete(m, k)
    ELSE m

\* a cleanup that also sweeps the entries whose age has just reached their ttl
CacheCleanupEager(m, t) ==
    [x \in {y \in DOMAIN m : t - m[y].timestamp < m[y].ttl} |-> m[x]]

\* MemoryCache.cleanup: the store after cleanup() at time t
CacheCleanup(m, t) ==
    [x \in {y \in DOMAIN m : ~Expired(m[y], t)} |-> m[x]]

NoGet == [key |-> "", by |-> 0, result |-> Null, called |-> FALSE]

cacheVars == <<cache, now, live, lastGet>>

CacheInit ==
    /\ cache = EmptyMap
    /\ now = 0
    /\ live = EmptyMap
    /\ lastGet = NoGet

\* a request calls nasaCache.set(k, data, ttlMinutes)
Set(r, k, data, ttlMinutes) ==
    /\ cache' = CacheSet(cache, k, data, ttlMinutes, now)
    /\ live' = MapSet(live, k,
                      [v |-> data, t |-> ttlMinutes, c |-> now, by |-> r,
                       over |-> IF k \in DOMAIN cache /\ k \in DOMAIN live
                                THEN live[k].by ELSE 0])
    /\ lastGet' = NoGet
    /\ UNCHANGED now

\* a request calls nasaCache.get(k)
Get(r, k) ==
    /\ cache' = CacheGetStore(cache, k, now)
    /\ lastGet' = [key |-> k, by |-> r, result |-> CacheGetResult(cache, k, now),
                   called |-> TRUE]
    /\ UNCHANGED <<now, live>>

\* a request calls nasaCache.delete(k)
Delete(k) ==
    /\ cache' = MapDelete(cache, k)
    /\ live' = MapDelete(live, k)
    /\ lastGet' = NoGet
    /\ UNCHANGED now

\* a request calls nasaCache.clear()
Clear ==
    /\ cache' = EmptyMap
    /\ live' = EmptyMap
    /\ lastGet' = NoGet
    /\ UNCHANGED now

\* the interval timer (or a caller) runs nasaCache.cleanup()
Cleanup ==
    /\ cache' = CacheCleanup(cache, now)
    /\ lastGet' = NoGet
    /\ UNCHANGED <<now, live>>

\* time passes
Advance ==
    /\ \E d \in ClockSteps :
          /\ (now + d) \div 30000 <= MaxAdvances
          /\ now' = now + d
    /\ lastGet' = NoGet
    /\ UNCHANGED <<cache, live>>

CacheNext ==
    \/ \E r \in Requests, k \in Keys, d \in Payloads, t \in TTLMinutes : Set(r, k, d, t)
    \/ \E r \in Requests, k \in Keys : Get(r, k)
    \/ \E k \in Keys : Delete(k)
    \/ Clear
    \/ Cleanup
    \/ Advance

\* ------------------------------------------------------------------------
\* MemoryCache with and without the periodic sweep: two stores receive the
\* same set/get/delete/clear calls at the same times; cleanup() runs, at
\* arbitrary points, on the first one only.
\* ------------------------------------------------------------------------

VARIABLES
    swCache,    \* the Map of the cache whose cleanup() runs
    swShadow,   \* the Map of the cache on which cleanup() never runs
    swNow,      \* Date.now(), in milliseconds
    swGet,      \* the get that just ran: its key and what it returned on
                \* either cache
    swSwept     \* history: the Map as the cleanup() that just ran found it

sweepVars == <<swCache, swShadow, swNow, swGet, swSwept>>

NoSweep == [before |-> EmptyMap, ran |-> FALSE]

NoSweepGet == [key |-> "", swept |-> Null, unswept |-> Null, called |-> FALSE]

SweepInit ==
    /\ swCache = EmptyMap
    /\ swShadow = EmptyMap
    /\ swNow = 0
    /\ swGet = NoSweepGet
    /\ swSwept = NoSweep

\* set(k, data, ttlMinutes) on both caches
SweepSet(k, data, ttlMinutes) ==
    /\ swCache' = CacheSet(swCache, k, data, ttlMinutes, swNow)
    /\ swShadow' = CacheSet(swShadow, k, data, ttlMinutes, swNow)
    /\ swGet' = NoSweepGet
    /\ swSwept' = NoSweep
    /\ UNCHANGED swNow

\* get(k) on both caches
SweepGet(k) ==
    /\ swCache' = CacheGetStore(swCache, k, swNow)
    /\ swShadow' = CacheGetStore(swShadow, k, swNow)
    /\ swGet' = [key |-> k, swept |-> CacheGetResult(swCache, k, swNow),
                 unswept |-> CacheGetResult(swShadow, k, swNow), called |-> TRUE]
    /\ swSwept' = NoSweep
    /\ UNCHANGED swNow

\* delete(k) on both caches
SweepDelete(k) ==
    /\ swCache' = MapDelete(swCache, k)
    /\ swShadow' = MapDelete(swShadow, k)
    /\ swGet' = NoSweepGet
    /\ swSwept' = NoSweep
    /\ UNCHANGED swNow

\* clear() on both caches
SweepClear ==
    /\ swCache' = EmptyMap
    /\ swShadow' = EmptyMap
    /\ swGet' = NoSweepGet
    /\ swSwept' = NoSweep
    /\ UNCHANGED swNow

\* a cleanup() that returns after the first expired entry it deleted
SweepCleanupStopsEarly ==
    /\ swCache' = IF \E k \in DOMAIN swCache : Expired(swCache[k], swNow)
                  THEN MapDelete(swCache, CHOOSE k \in DOMAIN swCache :
                                             Expired(swCache[k], swNow))
                  ELSE swCache
    /\ swGet' = NoSweepGet
    /\ swSwept' = [before |-> swCache, ran |-> TRUE]
    /\ UNCHANGED <<swShadow, swNow>>

\* the interval timer fires: cleanup() on the first cache only
SweepCleanup ==
    /\ swCache' = CacheCleanup(swCache, swNow)
    /\ swGet' = NoSweepGet
    /\ swSwept' = [before |-> swCache, ran |-> TRUE]
    /\ UNCHANGED <<swShadow, swNow>>

\* time passes
SweepAdvance ==
    /\ \E d \in ClockSteps :
          /\ (swNow + d) \div 30000 <= MaxAdvances
          /\ swNow' = swNow + d
    /\ swGet' = NoSweepGet
    /\ swSwept' = NoSweep
    /\ UNCHANGED <<swCache, swShadow>>

SweepNext ==
    \/ \E k \in Keys, d \in Payloads, t \in TTLMinutes : SweepSet(k, d, t)
    \/ \E k \in Keys : SweepGet(k)
    \/ \E k \in Keys : SweepDelete(k)
    \/ SweepClear
    \/ SweepCleanup
    \/ SweepAdvance

\* ------------------------------------------------------------------------
\* fetchWithRetry (src/unnamed/part_000)
\* ------------------------------------------------------------------------

\* the default of the retries parameter; every caller uses the default
Retries == 3

\* what one upstream fetch can do: an OK response, a non-OK status, or a
\* rejected fetch (network error)
FetchOutcomes == {"ok", "429", "500", "404", "network"}

VARIABLES
    rPc,        \* position of the call: "idle", "fetch" (about to await
                \* fetch), "backoff" (awaiting delay), "returned", "threw"
    rI,         \* the loop variable i
    rLog,       \* history: the outcome of every fetch the call has issued
    rWait,      \* the delay being awaited, in ms (0 when none)
    rWaits      \* history: the delays the call has awaited so far

retryVars == <<rPc, rI, rLog, rWait, rWaits>>

RetryInit ==
    /\ rPc = "idle"
    /\ rI = 0
    /\ rLog = <<>>
    /\ rWait = 0
    /\ rWaits = <<>>

\* a loop condition that admits one iteration too many (<= for <)
LoopRunsOneMore(i, retries) == i <= retries

\* the loop condition of the for statement
LoopRuns(i, retries) == i < retries

\* a backoff that does not tell a 429 from the other failures
BackoffMsFlat(outcome, i) == 1000 * (i + 1)

\* the delay awaited after a failed attempt with loop variable i
BackoffMs(outcome, i) == IF outcome = "429" THEN 2000 * (i + 1) ELSE 1000 * (i + 1)

\* a caller invokes fetchWithRetry(url): i = 0, the loop is entered
RetryCall ==
    /\ rPc = "idle"
    /\ rPc' = IF LoopRuns(0, Retries) THEN "fetch" ELSE "threw"
    /\ rI' = 0
    /\ UNCHANGED <<rLog, rWait, rWaits>>

\* the awaited fetch settles with outcome o
RetryFetch(o) ==
    /\ rPc = "fetch"
    /\ rLog' = Append(rLog, o)
    /\ IF o = "ok"
       THEN \* line 61: return response
            /\ rPc' = "returned"
            /\ UNCHANGED <<rI, rWait, rWaits>>
       ELSE IF o = "429"
       THEN \* lines 64-66: await delay(2000 * (i + 1)); continue
            /\ rPc' = "backoff"
            /\ rWait' = BackoffMs(o, rI)
            /\ UNCHANGED <<rI, rWaits>>
       ELSE IF rI = Retries - 1
       THEN \* line 71: the last attempt rethrows
            /\ rPc' = "threw"
            /\ UNCHANGED <<rI, rWait, rWaits>>
       ELSE \* line 72: await delay(1000 * (i + 1))
            /\ rPc' = "backoff"
            /\ rWait' = BackoffMs(o, rI)
            /\ UNCHANGED <<rI, rWaits>>

\* the awaited delay elapses: i++, then the loop condition; line 75 throws
\* when the loop is left
RetryBackoffDone ==
    /\ rPc = "backoff"
    /\ rWaits' = Append(rWaits, rWait)
    /\ rWait' = 0
    /\ rI' = rI + 1
    /\ rPc' = IF LoopRuns(rI + 1, Retries) THEN "fetch" ELSE "threw"
    /\ UNCHANGED rLog

RetryNext ==
    \/ RetryCall
    \/ \E o \in FetchOutcomes : RetryFetch(o)
    \/ RetryBackoffDone

\* ------------------------------------------------------------------------
\* The image-pool endpoint: pool finalization and responses of GET
\* (src/unnamed/part_000)
\* ------------------------------------------------------------------------

\* the rotations the shuffle of line 244 is drawn from: sort with a random
\* comparator returns some permutation of its input; the model takes the
\* rotations by 0..MaxShuffle places
MaxShuffle == 1

ShuffleKeys == 0..MaxShuffle

\* the floor below which the fallback images are appended (line 227)
FallbackFloor == 15

\* the maximum pool size (line 245)
MaxPool == 20

\* the ttlMinutes argument of the set of line 263
PoolTtlMinutes == 120

\* cacheKey
CacheKey == "nasa-images-combined"

\* URLs are triples <<host, a, b>>; these are the eight fallbackImages
FallbackImages == [n \in 1..8 |-> <<"unsplash", n, 0>>]

\* the strings on which new URL(url) throws
InvalidUrls == {<<"invalid", 0, 0>>}

\* the filter of lines 233-240
IsValidUrl(u) == u \notin InvalidUrls

Min(a, b) == IF a < b THEN a ELSE b

RECURSIVE Dedup(_)
\* [...new Set(seq)]: the first occurrence of each element, in order
Dedup(seq) ==
    IF seq = <<>> THEN <<>>
    ELSE LET init == Dedup(SubSeq(seq, 1, Len(seq) - 1))
             last == seq[Len(seq)]
         IN  IF \E n \in 1..Len(init) : init[n] = last THEN init ELSE Append(init, last)

\* a filter that lets every string through
FilterValidKeepsAll(seq) == seq

\* Array.filter with the URL test
FilterValid(seq) == SelectSeq(seq, IsValidUrl)

\* the permutation the random sort returns for the key k: a rotation
Shuffle(seq, k) ==
    IF seq = <<>> THEN <<>>
    ELSE [n \in 1..Len(seq) |-> seq[((n - 1 + k) % Len(seq)) + 1]]

\* a merge that also appends the fallback images at the floor itself
MergeFallbackAtFloor(imageUrls) ==
    IF Len(imageUrls) <= FallbackFloor THEN imageUrls \o FallbackImages ELSE imageUrls

\* lines 224-229: finalImages after the fallback merge
MergeFallback(imageUrls) ==
    IF Len(imageUrls) < FallbackFloor THEN imageUrls \o FallbackImages ELSE imageUrls

\* the same lines without the new Set(...) step
FinalizePoolNoDedup(imageUrls, k) ==
    LET finalImages == MergeFallback(imageUrls)
        shuffled == Shuffle(FilterValid(finalImages), k)
    IN  SubSeq(shuffled, 1, Min(MaxPool, Len(shuffled)))

\* lines 224-245: fallback merge, dedup, validation, shuffle, truncation
FinalizePool(imageUrls, k) ==
    LET finalImages == MergeFallback(imageUrls)
        uniqueImages == FilterValid(Dedup(finalImages))
        shuffled == Shuffle(uniqueImages, k)
    IN  SubSeq(shuffled, 1, Min(MaxPool, Len(shuffled)))

\* the url fields of a list of NASAImageResult
UrlsOf(images) == [n \in 1..Len(images) |-> images[n].url]

\* a result object whose allNASAImages leaves out the earthImages
FreshResultWithoutEarth(apodImages, marsImages, earthImages, k, t) ==
    LET imageUrls == UrlsOf(apodImages \o marsImages)
        shuffledImages == FinalizePool(imageUrls, k)
    IN  [success |-> TRUE,
         images |-> shuffledImages,
         source |-> IF Len(imageUrls) > 0 THEN "nasa_api" ELSE "fallback",
         metadata |-> [nasa_images_count |-> Len(imageUrls),
                       apod_count |-> Len(apodImages),
                       mars_count |-> Len(marsImages),
                       earth_count |-> Len(earthImages),
                       total_returned |-> Len(shuffledImages)],
         timestamp |-> t,
         cached |-> FALSE]

\* lines 205-260: the result object of a fresh aggregation at time t
FreshResult(apodImages, marsImages, earthImages, k, t) ==
    LET imageUrls == UrlsOf(apodImages \o marsImages \o earthImages)
        shuffledImages == FinalizePool(imageUrls, k)
    IN  [success |-> TRUE,
         images |-> shuffledImages,
         source |-> IF Len(imageUrls) > 0 THEN "nasa_api" ELSE "fallback",
         metadata |-> [nasa_images_count |-> Len(imageUrls),
                       apod_count |-> Len(apodImages),
                       mars_count |-> Len(marsImages),
                       earth_count |-> Len(earthImages),
                       total_returned |-> Len(shuffledImages)],
         timestamp |-> t,
         cached |-> FALSE]

\* a cache-hit response that spreads the stored result and sets nothing
CachedResponseNotFlagged(cachedResult, t) ==
    [success |-> cachedResult.success,
     images |-> cachedResult.images,
     source |-> cachedResult.source,
     metadata |-> cachedResult.metadata,
     timestamp |-> cachedResult.timestamp,
     cached |-> cachedResult.cached]

\* lines 190-194: the response on a cache hit at time t
CachedResponse(cachedResult, t) ==
    [success |-> cachedResult.success,
     images |-> cachedResult.images,
     source |-> cachedResult.source,
     metadata |-> cachedResult.metadata,
     timestamp |-> cachedResult.timestamp,
     cached |-> TRUE,
     cache_age |-> ((t - cachedResult.timestamp) \div 1000) \div 60]

\* a catch block that lets the failure through to the framework
UnhandledFailure == [unhandled |-> TRUE]

\* lines 267-292: the response of the catch block
CaughtResponse ==
    [success |-> FALSE,
     images |-> FallbackImages,
     source |-> "fallback",
     error |-> "Failed to fetch NASA images",
     metadata |-> [nasa_images_count |-> 0, total_returned |-> Len(FallbackImages)]]

\* no response sent yet
NoResponse == [none |-> TRUE]

\* lines 204-265 and the catch block: the response of a GET whose three
\* category promises have settled at time t; rejected says that one of them
\* rejected, th where an exception is raised in the rest of the try block
TailResponse(apodImages, marsImages, earthImages, k, t, rejected, th) ==
    IF rejected \/ th # "none"
    THEN CaughtResponse
    ELSE FreshResult(apodImages, marsImages, earthImages, k, t)

\* the same lines: whether the set of line 263 is executed
TailStores(rejected, th) == ~rejected /\ th # "beforeSet"

\* the same lines: the store they leave
TailCache(m, apodImages, marsImages, earthImages, k, t, rejected, th) ==
    IF TailStores(rejected, th)
    THEN CacheSet(m, CacheKey, FreshResult(apodImages, marsImages, earthImages, k, t),
                  PoolTtlMinutes, t)
    ELSE m

\* ------------------------------------------------------------------------
\* One GET of the image-pool endpoint, upstream call by upstream call
\* (src/unnamed/part_000)
\* ------------------------------------------------------------------------

\* the count argument of getAPODImages in GET (line 199)
ApodCount == 8

\* RATE_LIMIT_DELAY, in ms (line 51)
RATE_LIMIT_DELAY == 100

\* the rovers array of getMarsRoverImages has three elements (lines 115-119)
RoverCount == 3

\* slice(0, 3): at most three photos per rover (line 136)
PhotosPerRover == 3

\* what one upstream call of a category can end in: fetchWithRetry threw
\* after its retries ("exhausted"); it returned a response whose body does
\* not parse or has not the expected shape, so that json() rejects or a
\* TypeError is thrown ("badBody"); the body parsed: an entry that is kept
\* ("image"), or an entry that the media_type/hdurl test drops ("dropped")
ApodOutcomes == {"image", "dropped", "badBody", "exhausted"}
MarsOutcomes == {"photos", "badBody", "exhausted"}
EarthOutcomes == {"ok", "exhausted"}

\* where an exception can be raised in the try block of GET once the three
\* category promises have settled: nowhere, before the set of line 263, or
\* after it
ThrowPoints == {"none", "beforeSet", "afterSet"}

VARIABLES
    aPc,        \* the GET in progress: "idle", "fetching" (awaiting
                \* Promise.all), "responded"
    aApod,      \* getAPODImages: pc, loop variable i, images, outcome of the
                \* call that settled last
    aMars,      \* getMarsRoverImages: pc, index of the rover, images, outcome
                \* of the call that settled last
    aEarth,     \* getEarthImages: pc, images, outcome of its call
    aResp,      \* the response of the GET
    aCaught     \* history: the catch block of GET ran

aggVars == <<aPc, aApod, aMars, aEarth, aResp, aCaught>>

\* a category function before its first call; ok, kept and waited are
\* history: whether a call of this aggregation has succeeded, whether some
\* entry of a successful call passed the category's filter, and the
\* milliseconds the loop has waited since its last call settled
IdleCategory ==
    [pc |-> "idle", i |-> 0, images |-> <<>>, last |-> "none",
     ok |-> FALSE, kept |-> FALSE, waited |-> 0]

AggInit ==
    /\ aPc = "idle"
    /\ aApod = IdleCategory
    /\ aMars = IdleCategory
    /\ aEarth = IdleCategory
    /\ aResp = NoResponse
    /\ aCaught = FALSE

\* the next iteration of a category loop of n iterations, or its return
NextIteration(rec, n) ==
    [rec EXCEPT !.i = rec.i + 1, !.pc = IF rec.i + 1 < n THEN "call" ELSE "done"]

\* a category loop without the try/catch: the rejection leaves the function
RejectCategory(rec, n) == [rec EXCEPT !.pc = "threw"]

\* the catch block inside the loop of getAPODImages (lines 104-106) and of
\* getMarsRoverImages (lines 146-148): the error is logged, the loop goes on
CatchInLoop(rec, n) == NextIteration(rec, n)

\* the NASAImageResult pushed for the APOD entry of day i
ApodImage(i) == [url |-> <<"apod", i, 0>>, source |-> "apod"]

\* the NASAImageResults of the first n photos of rover r
MarsImagesOf(r, n) == [m \in 1..n |-> [url |-> <<"mars", r, m>>, source |-> "mars_rover"]]

\* the NASAImageResult of getEarthImages: its url is the request url
EarthImage == [url |-> <<"earth", 0, 0>>, source |-> "earth_imagery"]

\* GET is called (for the first time, or again after its response): the
\* cache is consulted (lines 185-195); a hit is answered at once; on a miss
\* the three category functions are called and run up to their first fetch
AggStart ==
    /\ aPc \in {"idle", "responded"}
    /\ aCaught' = FALSE
    /\ cache' = CacheGetStore(cache, CacheKey, now)
    /\ IF CacheGetResult(cache, CacheKey, now) # Null
       THEN /\ aPc' = "responded"
            /\ aResp' = CachedResponse(CacheGetResult(cache, CacheKey, now), now)
            /\ UNCHANGED <<aApod, aMars, aEarth>>
       ELSE /\ aPc' = "fetching"
            /\ aApod' = [IdleCategory EXCEPT !.pc = "call"]
            /\ aMars' = [IdleCategory EXCEPT !.pc = "call"]
            /\ aEarth' = [IdleCategory EXCEPT !.pc = "call"]
            /\ aResp' = NoResponse
    /\ UNCHANGED <<now, live, lastGet>>

\* the fetchWithRetry call of day i of getAPODImages settles (lines 84-106)
ApodCall(o) ==
    /\ aApod.pc = "call"
    /\ aApod' =
          IF o = "image"
          THEN [aApod EXCEPT !.images = Append(aApod.images, ApodImage(aApod.i)),
                             !.pc = "delay", !.last = o, !.waited = 0,
                             !.ok = TRUE, !.kept = TRUE]
          ELSE IF o = "dropped"
          THEN [aApod EXCEPT !.pc = "delay", !.last = o, !.waited = 0,
                             !.ok = TRUE]
          ELSE CatchInLoop([aApod EXCEPT !.last = o, !.waited = 0], ApodCount)
    /\ UNCHANGED <<aPc, aMars, aEarth, aResp, aCaught, cacheVars>>

\* the delay(RATE_LIMIT_DELAY) of line 103 elapses
ApodDelayDone ==
    /\ aApod.pc = "delay"
    /\ aApod' = NextIteration([aApod EXCEPT !.waited = RATE_LIMIT_DELAY], ApodCount)
    /\ UNCHANGED <<aPc, aMars, aEarth, aResp, aCaught, cacheVars>>

\* the fetchWithRetry call of a rover settles (lines 122-148); n photos
\* are left after filter, sort and slice(0, 3)
MarsCall(o, n) ==
    /\ aMars.pc = "call"
    /\ aMars' =
          IF o = "photos"
          THEN [aMars EXCEPT !.images = aMars.images \o MarsImagesOf(aMars.i, n),
                             !.pc = "delay", !.last = o, !.waited = 0,
                             !.ok = TRUE, !.kept = (aMars.kept \/ n > 0)]
          ELSE CatchInLoop([aMars EXCEPT !.last = o, !.waited = 0], RoverCount)
    /\ UNCHANGED <<aPc, aApod, aEarth, aResp, aCaught, cacheVars>>

\* the delay(RATE_LIMIT_DELAY) of line 145 elapses
MarsDelayDone ==
    /\ aMars.pc = "delay"
    /\ aMars' = NextIteration([aMars EXCEPT !.waited = RATE_LIMIT_DELAY], RoverCount)
    /\ UNCHANGED <<aPc, aApod, aEarth, aResp, aCaught, cacheVars>>

\* the fetchWithRetry call of getEarthImages settles (lines 156-177): a
\* returned response is always ok; a rejection is caught and [] returned
EarthCall(o) ==
    /\ aEarth.pc = "call"
    /\ aEarth' = [aEarth EXCEPT !.pc = "done", !.last = o, !.i = 1,
                                !.images = IF o = "ok" THEN <<EarthImage>> ELSE <<>>,
                                !.ok = (o = "ok"), !.kept = (o = "ok")]
    /\ UNCHANGED <<aPc, aApod, aMars, aResp, aCaught, cacheVars>>

\* Promise.all settles (lines 198-202) and the rest of GET runs: the pool is
\* finalized with the shuffle k, the result is stored and returned; an
\* exception, from a rejected category or raised at the point th, is
\* answered by the catch block
AggRespond(k, th) ==
    /\ aPc = "fetching"
    /\ {aApod.pc, aMars.pc, aEarth.pc} \subseteq {"done", "threw"}
    /\ LET rejected == "threw" \in {aApod.pc, aMars.pc, aEarth.pc}
       IN  /\ cache' = TailCache(cache, aApod.images, aMars.images, aEarth.images,
                                 k, now, rejected, th)
           /\ aResp' = TailResponse(aApod.images, aMars.images, aEarth.images,
                                    k, now, rejected, th)
           /\ aCaught' = (rejected \/ th # "none")
    /\ aPc' = "responded"
    /\ UNCHANGED <<aApod, aMars, aEarth, now, live, lastGet>>

AggNext ==
    \/ AggStart
    \/ \E o \in ApodOutcomes : ApodCall(o)
    \/ ApodDelayDone
    \/ \E o \in MarsOutcomes, n \in 0..PhotosPerRover : MarsCall(o, n)
    \/ MarsDelayDone
    \/ \E o \in EarthOutcomes : EarthCall(o)
    \/ \E k \in ShuffleKeys, th \in ThrowPoints : AggRespond(k, th)

\* ------------------------------------------------------------------------
\* Concurrent GETs of the image-pool endpoint against the process-wide
\* cache (src/unnamed/part_000, src/src/lib/cache.ts); the three category
\* functions of a GET are taken as one step that yields their image lists
\* ------------------------------------------------------------------------

\* the clock of this specification advances by 60 or 61 minutes, at most
\* up to MaxHours hours and a few minutes
MaxHours == 2

HourSteps == {3600000, 3660000}

\* what the three category functions of one GET can return together
AggResults ==
    {[apod |-> <<>>, mars |-> <<>>, earth |-> <<>>],
     [apod |-> <<ApodImage(0)>>, mars |-> MarsImagesOf(0, 1), earth |-> <<EarthImage>>]}

VARIABLES
    gPc,        \* for each request: "idle", "fetching" (awaiting Promise.all),
                \* "responded"
    gResp,      \* for each request: its response
    gUpstream,  \* history: for each request, the aggregations it has started
    gExpect,    \* history: for each request, the images list the cache
                \* contract promised it when it started (or NoExpect)
    gStored     \* history: the images and the time of the set of line 263
                \* that was executed last (or NoStored)

getVars == <<gPc, gResp, gUpstream, gExpect, gStored>>

NoExpect == [none |-> TRUE]

NoStored == [none |-> TRUE]

GetInit ==
    /\ gPc = [r \in Requests |-> "idle"]
    /\ gResp = [r \in Requests |-> NoResponse]
    /\ gUpstream = [r \in Requests |-> 0]
    /\ gExpect = [r \in Requests |-> NoExpect]
    /\ gStored = NoStored

\* lines 181-202: request r arrives; the cache is consulted; a hit is
\* answered at once, a miss starts the three category functions
GetStart(r) ==
    /\ gPc[r] \in {"idle", "responded"}
    /\ cache' = CacheGetStore(cache, CacheKey, now)
    /\ gExpect' = [gExpect EXCEPT ![r] =
                      IF gStored # NoStored /\ now - gStored.c <= 120 * 60000
                      THEN [images |-> gStored.images]
                      ELSE NoExpect]
    /\ IF CacheGetResult(cache, CacheKey, now) # Null
       THEN /\ gPc' = [gPc EXCEPT ![r] = "responded"]
            /\ gResp' = [gResp EXCEPT ![r] =
                            CachedResponse(CacheGetResult(cache, CacheKey, now), now)]
            /\ gUpstream' = [gUpstream EXCEPT ![r] = 0]
       ELSE /\ gPc' = [gPc EXCEPT ![r] = "fetching"]
            /\ gResp' = [gResp EXCEPT ![r] = NoResponse]
            /\ gUpstream' = [gUpstream EXCEPT ![r] = 1]
    /\ UNCHANGED <<gStored, now, live, lastGet>>

\* lines 198-292: the category functions of request r have returned agg;
\* the pool is finalized with the shuffle k, stored and returned; an
\* exception raised at the point th is answered by the catch block
GetFinish(r, agg, k, th) ==
    /\ gPc[r] = "fetching"
    /\ cache' = TailCache(cache, agg.apod, agg.mars, agg.earth, k, now, FALSE, th)
    /\ gResp' = [gResp EXCEPT ![r] =
                    TailResponse(agg.apod, agg.mars, agg.earth, k, now, FALSE, th)]
    /\ gStored' = IF TailStores(FALSE, th)
                  THEN [images |-> FinalizePool(UrlsOf(agg.apod \o agg.mars \o agg.earth), k),
                        c |-> now]
                  ELSE gStored
    /\ gPc' = [gPc EXCEPT ![r] = "responded"]
    /\ UNCHANGED <<gUpstream, gExpect, now, live, lastGet>>

\* the interval timer of cache.ts runs cleanup()
GetCleanup ==
    /\ cache' = CacheCleanup(cache, now)
    /\ UNCHANGED <<getVars, now, live, lastGet>>

\* time passes
GetAdvance ==
    /\ \E d \in HourSteps :
          /\ (now + d) \div 3600000 <= MaxHours
          /\ now' = now + d
    /\ UNCHANGED <<getVars, cache, live, lastGet>>

GetNext ==
    \/ \E r \in Requests : GetStart(r)
    \/ \E r \in Requests, agg \in AggResults, k \in ShuffleKeys, th \in ThrowPoints :
          GetFinish(r, agg, k, th)
    \/ GetCleanup
    \/ GetAdvance

\* ------------------------------------------------------------------------
\* useWallpaperGeneration (src/src/hooks/useNASAImages.ts) and the same code
\* in src/src/components/WallpaperGenerator.tsx
\* ------------------------------------------------------------------------

\* number of generateAllWallpapers invocations in one behaviour; they may
\* overlap, since nothing stops an invocation while another one is running
MaxPasses == 2

\* the slots generateAllWallpapers generates, in this order
Slots == <<0, 1, 2>>

\* WallpaperFormat
Formats == {"4k-desktop", "phone"}

\* what can make one generateWallpaper(index) call reject
SlotFailures == {"canvas", "primaryDecode", "fallbackFetch", "fallbackDecode",
                 "preview", "fullRes"}

\* what the render of a loaded image can do: both encodings pass their
\* checks, generatePreviewImage throws (preview canvas or context missing,
\* invalid preview data URL), or the check of line 224 throws
RenderOutcomes == {"ok", "preview", "fullRes"}

VARIABLES
    format,             \* the format the consumer has selected
    wallpapers,         \* useState: the full-resolution artifacts shown
    previewImages,      \* useState: the preview artifacts shown
    imageLoadErrors,    \* useState: the per-slot error flags
    errorsOf,           \* history: the pass whose state update last reset
                        \* imageLoadErrors (0 before the first one)
    isGenerating,       \* useState
    passes,             \* the invocations of generateAllWallpapers: for each
                        \* its position pc, its format argument, the slot it
                        \* is generating, its results array so far and, when
                        \* it was aborted, what made the slot reject
    nextPass            \* the number of the next invocation

genVars == <<format, wallpapers, previewImages, imageLoadErrors, errorsOf,
             isGenerating, passes, nextPass>>

PassIds == 1..MaxPasses

NoPass == [pc |-> "none", fmt |-> "4k-desktop", slot |-> 0, results |-> <<>>,
           fail |-> "none"]

GenInit ==
    /\ format = "4k-desktop"
    /\ wallpapers = <<>>
    /\ previewImages = <<>>
    /\ imageLoadErrors = <<>>
    /\ errorsOf = 0
    /\ isGenerating = FALSE
    /\ passes = [p \in PassIds |-> NoPass]
    /\ nextPass = 1

\* the WallpaperResult of one slot: which pass and slot rendered it, at which
\* format, and from which image (the sampled one or the fixed fallback)
SlotResult(p, i, fmt, src) ==
    [fullRes |-> [pass |-> p, slot |-> i, fmt |-> fmt, src |-> src, enc |-> "png"],
     preview |-> [pass |-> p, slot |-> i, fmt |-> fmt, src |-> src, enc |-> "jpeg"]]

\* a catch block that publishes the slots rendered before the one that
\* rejected
AbortedPublishes(rec, cause) == [rec EXCEPT !.pc = "timer", !.fail = cause]

\* the catch and finally blocks of generateAllWallpapers after a slot
\* rejected: the error is logged, the results array is never built (the
\* results of the slots before are dropped), no state is set but isGenerating
Aborted(rec, cause) == [rec EXCEPT !.pc = "failed", !.fail = cause, !.results = <<>>]

\* generateWallpaper(i) up to its first await: the canvas and context checks
\* (lines 171-175), then the fetch of the sampled image is started
StartSlot(rec, i, canvasOk) ==
    IF canvasOk
    THEN [rec EXCEPT !.pc = "load", !.slot = i]
    ELSE Aborted([rec EXCEPT !.slot = i], "canvas")

\* the image element of the sampled image fired onerror: the promise that
\* loadImageAsBlob returned from its try block (lines 71-82) rejects; it was
\* returned, not awaited, so the catch block of line 83 does not run and the
\* rejection reaches generateWallpaper and then generateAllWallpapers
AfterPrimaryDecodeError(rec) == Aborted(rec, "primaryDecode")

\* the image is loaded: preview and full-resolution render of the slot,
\* then the next slot is started or, after the last one, the pass ends with
\* its state update scheduled by setTimeout
AfterImageLoaded(p, rec, src, render, canvasOk) ==
    IF render # "ok" THEN Aborted(rec, render)
    ELSE LET done == [rec EXCEPT !.results =
                         Append(rec.results, SlotResult(p, rec.slot, rec.fmt, src))]
         IN  IF rec.slot = Slots[Len(Slots)]
             THEN [done EXCEPT !.pc = "timer"]
             ELSE StartSlot(done, rec.slot + 1, canvasOk)

\* a pass that resets isGenerating at the end of its try block only
IsGeneratingAfterTryOnly(rec) ==
    IF rec.pc = "timer" THEN FALSE ELSE isGenerating

\* isGenerating after a step of a pass: the finally block sets it to false
IsGeneratingAfter(rec) ==
    IF rec.pc \in {"failed", "timer"} THEN FALSE ELSE isGenerating

\* the pass p moves to rec
PassStep(p, rec) ==
    /\ passes' = [passes EXCEPT ![p] = rec]
    /\ isGenerating' = IsGeneratingAfter(rec)
    /\ UNCHANGED <<format, wallpapers, previewImages, imageLoadErrors, errorsOf,
                   nextPass>>

\* the consumer selects format f (or mounts, or regenerates) and
\* generateAllWallpapers(f, pool) is invoked: setIsGenerating(true), then
\* the 500 ms delay is awaited
StartPass(f) ==
    /\ nextPass <= MaxPasses
    /\ format' = f
    /\ isGenerating' = TRUE
    /\ passes' = [passes EXCEPT ![nextPass] = [NoPass EXCEPT !.pc = "delay", !.fmt = f]]
    /\ nextPass' = nextPass + 1
    /\ UNCHANGED <<wallpapers, previewImages, imageLoadErrors, errorsOf>>

\* the 500 ms delay of pass p elapses: generateWallpaper(0) is called
DelayDone(p, canvasOk) ==
    /\ passes[p].pc = "delay"
    /\ PassStep(p, StartSlot(passes[p], 0, canvasOk))

\* the fetch of the sampled image settles: ok, or a transport failure
\* (rejected fetch, non-OK status, failed body read), which the catch block
\* answers by requesting the fallback image
PrimaryFetch(p, ok) ==
    /\ passes[p].pc = "load"
    /\ PassStep(p, [passes[p] EXCEPT !.pc = IF ok THEN "decode" ELSE "fbLoad"])

\* the image element of the sampled image fires onload or onerror
PrimaryDecode(p, ok, render, canvasOk) ==
    /\ passes[p].pc = "decode"
    /\ PassStep(p, IF ok
                   THEN AfterImageLoaded(p, passes[p], "sampled", render, canvasOk)
                   ELSE AfterPrimaryDecodeError(passes[p]))

\* the fetch of the fallback image settles (lines 88-94)
FallbackFetch(p, ok) ==
    /\ passes[p].pc = "fbLoad"
    /\ PassStep(p, IF ok
                   THEN [passes[p] EXCEPT !.pc = "fbDecode"]
                   ELSE Aborted(passes[p], "fallbackFetch"))

\* the image element of the fallback image fires onload or onerror
FallbackDecode(p, ok, render, canvasOk) ==
    /\ passes[p].pc = "fbDecode"
    /\ PassStep(p, IF ok
                   THEN AfterImageLoaded(p, passes[p], "fallback", render, canvasOk)
                   ELSE Aborted(passes[p], "fallbackDecode"))

\* a list in the reverse of the slot order
NewWallpapersReversed(results) ==
    [i \in 1..Len(results) |-> results[Len(results) + 1 - i].fullRes]

\* results.map(result => result.fullRes)
NewWallpapers(results) == [i \in 1..Len(results) |-> results[i].fullRes]

\* a callback without its setPreviewImages call: the previews stay
NewPreviewsNotSet(results) == previewImages

\* results.map(result => result.preview)
NewPreviews(results) == [i \in 1..Len(results) |-> results[i].preview]

\* the setTimeout callback of pass p runs, 100 ms after the pass ended: its
\* three state updates are made in one callback, which React (18, as the
\* app router of the route handlers requires) renders as one batch
TimerFire(p) ==
    /\ passes[p].pc = "timer"
    /\ wallpapers' = NewWallpapers(passes[p].results)
    /\ previewImages' = NewPreviews(passes[p].results)
    /\ imageLoadErrors' = <<FALSE, FALSE, FALSE>>
    /\ errorsOf' = p
    /\ passes' = [passes EXCEPT ![p].pc = "done", ![p].results = <<>>]
    /\ UNCHANGED <<format, isGenerating, nextPass>>

\* the img element of the displayed slot i fires onerror: WallpaperItem
\* calls onImageError(index, true), i.e. setImageError (lines 277-283); the
\* img elements are only rendered while isGenerating is false and only for
\* the slots whose flag is not set
SetImageError(i) ==
    /\ ~isGenerating
    /\ i + 1 <= Len(wallpapers)
    /\ i + 1 <= Len(imageLoadErrors)
    /\ ~imageLoadErrors[i + 1]
    /\ imageLoadErrors' = [imageLoadErrors EXCEPT ![i + 1] = TRUE]
    /\ UNCHANGED <<format, wallpapers, previewImages, errorsOf, isGenerating,
                   passes, nextPass>>

GenNext ==
    \/ \E f \in Formats : StartPass(f)
    \/ \E p \in PassIds, c \in BOOLEAN : DelayDone(p, c)
    \/ \E p \in PassIds, ok \in BOOLEAN : PrimaryFetch(p, ok)
    \/ \E p \in PassIds, ok \in BOOLEAN, r \in RenderOutcomes, c \in BOOLEAN :
          PrimaryDecode(p, ok, r, c)
    \/ \E p \in PassIds, ok \in BOOLEAN : FallbackFetch(p, ok)
    \/ \E p \in PassIds, ok \in BOOLEAN, r \in RenderOutcomes, c \in BOOLEAN :
          FallbackDecode(p, ok, r, c)
    \/ \E p \in PassIds : TimerFire(p)

\* ------------------------------------------------------------------------
\* Termination of generateAllWallpapers: the passes as above, with every
\* timer firing and every fetch and image load settling in the end
\* ------------------------------------------------------------------------

\* number of invocations in a behaviour whose termination is followed
MaxLivePasses == 1

LiveStartPass(f) ==
    /\ nextPass <= MaxLivePasses
    /\ StartPass(f)

\* what the event loop owes pass p: its timers fire, its fetches and its
\* image elements settle, one way or the other
PassProgress(p) ==
    \/ \E c \in BOOLEAN : DelayDone(p, c)
    \/ \E ok \in BOOLEAN : PrimaryFetch(p, ok)
    \/ \E ok \in BOOLEAN, r \in RenderOutcomes, c \in BOOLEAN :
          PrimaryDecode(p, ok, r, c)
    \/ \E ok \in BOOLEAN : FallbackFetch(p, ok)
    \/ \E ok \in BOOLEAN, r \in RenderOutcomes, c \in BOOLEAN :
          FallbackDecode(p, ok, r, c)
    \/ TimerFire(p)

GenLiveNext ==
    \/ \E f \in Formats : LiveStartPass(f)
    \/ \E p \in PassIds, c \in BOOLEAN : DelayDone(p, c)
    \/ \E p \in PassIds, ok \in BOOLEAN : PrimaryFetch(p, ok)
    \/ \E p \in PassIds, ok \in BOOLEAN, r \in RenderOutcomes, c \in BOOLEAN :
          PrimaryDecode(p, ok, r, c)
    \/ \E p \in PassIds, ok \in BOOLEAN : FallbackFetch(p, ok)
    \/ \E p \in PassIds, ok \in BOOLEAN, r \in RenderOutcomes, c \in BOOLEAN :
          FallbackDecode(p, ok, r, c)
    \/ \E p \in PassIds : TimerFire(p)

\* ------------------------------------------------------------------------
\* The state the hook exposes, with the passes summarised: between its
\* setIsGenerating(true) and its finally block a pass sets no state, so the
\* loads and renders of its three slots are taken as one step that ends in
\* the results array or in a rejection.
\* ------------------------------------------------------------------------

\* the images a summarised pass renders its slots from
ShowSources == {"sampled", "fallback"}

\* lines 244-248 and the finally block: the three generateWallpaper calls
\* of pass p resolve, the state update is scheduled, isGenerating is reset
ShowPassRenders(p, src) ==
    /\ passes[p].pc = "delay"
    /\ PassStep(p, [passes[p] EXCEPT
                       !.pc = "timer",
                       !.slot = Slots[Len(Slots)],
                       !.results = [n \in 1..Len(Slots) |->
                                      SlotResult(p, Slots[n], passes[p].fmt, src)]])

\* the catch and finally blocks: a generateWallpaper call of pass p rejects
ShowPassFails(p, cause) ==
    /\ passes[p].pc = "delay"
    /\ PassStep(p, Aborted(passes[p], cause))

ShowNext ==
    \/ \E f \in Formats : StartPass(f)
    \/ \E p \in PassIds, src \in ShowSources : ShowPassRenders(p, src)
    \/ \E p \in PassIds, cause \in SlotFailures : ShowPassFails(p, cause)
    \/ \E p \in PassIds : TimerFire(p)
    \/ \E i \in {Slots[n] : n \in 1..Len(Slots)} : SetImageError(i)

\* ------------------------------------------------------------------------
\* The compositor: the accent rectangle of generatePreviewImage and of
\* generateWallpaper (src/src/hooks/useNASAImages.ts)
\* ------------------------------------------------------------------------

\* Math.random() returns n / DrawDenominator for some n in 0..DrawDenominator-1
DrawDenominator == 4

Draws == 0..(DrawDenominator - 1)

\* FORMATS
FORMATS(f) ==
    IF f = "4k-desktop" THEN [width |-> 3840, height |-> 2160]
    ELSE [width |-> 1080, height |-> 1920]

\* previewDimensions of generatePreviewImage
PreviewDimensions(f) ==
    IF f = "4k-desktop" THEN [width |-> 800, height |-> 450]
    ELSE [width |-> 400, height |-> 711]

\* Math.floor(dim * (0.05 + Math.random() * 0.10)) for the draw n / DrawDenominator,
\* in exact arithmetic: dim * (5 * D + 10 * n) / (100 * D), floored
RectSize(dim, n) == (dim * (5 * DrawDenominator + 10 * n)) \div (100 * DrawDenominator)

\* an origin that is not halved: the rectangle ends at the canvas edge
RectOriginNotHalved(dim, rect) == dim - rect

\* Math.floor((dim - rect) / 2)
RectOrigin(dim, rect) == (dim - rect) \div 2

\* the rectangle drawn on a canvas of size dims with the draws nw and nh
AccentRect(dims, nw, nh) ==
    LET w == RectSize(dims.width, nw)
        h == RectSize(dims.height, nh)
    IN  [width |-> w, height |-> h,
         x |-> RectOrigin(dims.width, w), y |-> RectOrigin(dims.height, h)]

NoRect == [width |-> 0, height |-> 0, x |-> 0, y |-> 0]

\* the natural sizes of the loaded image: every size up to MaxImageDim in
\* each direction, and two sizes of real images
MaxImageDim == 4

ImageSizes ==
    {[width |-> w, height |-> h] : w \in 1..MaxImageDim, h \in 1..MaxImageDim}
        \cup {[width |-> 4000, height |-> 3000], [width |-> 4280, height |-> 2140]}

RECURSIVE Pow2(_)
\* 2^n
Pow2(n) == IF n = 0 THEN 1 ELSE 2 * Pow2(n - 1)

RECURSIVE Pow2Mod(_, _)
\* 2^n modulo m
Pow2Mod(n, m) == IF n = 0 THEN 1 % m ELSE (2 * Pow2Mod(n - 1, m)) % m

RECURSIVE ExponentFrom(_, _, _)
\* the largest e >= from with b * 2^e <= a
ExponentFrom(a, b, from) ==
    IF b * Pow2(from + 1) <= a THEN ExponentFrom(a, b, from + 1) ELSE from

RECURSIVE NegExponentFrom(_, _, _)
\* the smallest m >= from with a * 2^m >= b
NegExponentFrom(a, b, from) ==
    IF a * Pow2(from) >= b THEN from ELSE NegExponentFrom(a, b, from + 1)

\* the binary exponent of a / b: floor(log2(a / b)), for integers a, b > 0
Exponent(a, b) ==
    IF a >= b THEN ExponentFrom(a, b, 0) ELSE -NegExponentFrom(a, b, 1)

\* the double a / b (IEEE 754 binary64, round to nearest, ties to even) for
\* integers a, b > 0 below 2^53: its 53-bit significand is q = a * 2^k / b
\* rounded to an integer, k = 52 - Exponent(a, b); the operator gives
\* q * b - a * 2^k, the rounding error of the quotient scaled by b * 2^k,
\* from the remainder of a * 2^k modulo 2b
DivError(a, b) ==
    LET k == 52 - Exponent(a, b)
        rem2 == ((a % (2 * b)) * Pow2Mod(k, 2 * b)) % (2 * b)
        rem == rem2 % b
        odd == rem2 >= b
    IN  IF 2 * rem < b \/ (2 * rem = b /\ ~odd) THEN -rem ELSE b - rem

\* the double b * (a / b), as the number of units in the last place of a
\* by which it differs from a (a > 0 is an integer that is not a power of
\* two, so the doubles around a are evenly spaced and a has an even
\* significand): the exact product (a / b) * b is a + DivError / 2^k, and
\* one unit in the last place of a is 2^(Exponent(a, 1) - Exponent(a, b))
\* in the same scale
MulDivUlps(b, a) ==
    LET err == DivError(a, b)
        ulp == Pow2(Exponent(a, 1) - Exponent(a, b))
        mag == IF err < 0 THEN -err ELSE err
        n == (2 * mag + ulp - 1) \div (2 * ulp)
    IN  IF err < 0 THEN -n ELSE n

\* Math.min in the place of Math.max: the image is fitted inside the canvas
WidthBindsMin(w, h, W, H) == W * h <= H * w

\* Math.max(W / w, H / h) is W / w: both quotients are correctly rounded,
\* and for sizes of this magnitude two different ratios never round to the
\* same double, so the doubles compare as the fractions do
WidthBinds(w, h, W, H) == W * h >= H * w

\* one axis of the cover fit: the image side d is scaled by the double
\* scale = num / den onto the canvas side T. The value d * scale is T +
\* excess / den + ulps units in the last place of T: when the fractions
\* d * num / den and T differ, excess is their exact difference times den
\* (the rounding error of the product, far below 1 / den, is left out);
\* when they are equal, d * scale is the double d * (T / d). The offset
\* (T - d * scale) / 2 is computed exactly by the subtraction and the
\* halving: -excess / (2 den) - ulps half units in the last place of T.
FitAxis(d, T, num, den) ==
    LET excess == d * num - T * den
        ulps == IF excess = 0 THEN MulDivUlps(d, T) ELSE 0
    IN  [target |-> T, den |-> den,
         scaledExcess |-> excess, scaledUlps |-> ulps,
         offsetExcess |-> -excess, offsetHalfUlps |-> -ulps]

\* lines 134-138 and 199-203: scale, scaledWidth, scaledHeight, x, y for an
\* image of size img on a canvas of size dims
CoverFit(img, dims) ==
    LET num == IF WidthBinds(img.width, img.height, dims.width, dims.height)
               THEN dims.width ELSE dims.height
        den == IF WidthBinds(img.width, img.height, dims.width, dims.height)
               THEN img.width ELSE img.height
    IN  [scale |-> [num |-> num, den |-> den],
         horizontal |-> FitAxis(img.width, dims.width, num, den),
         vertical |-> FitAxis(img.height, dims.height, num, den)]

NoFit == [none |-> TRUE]

\* the length below which the preview check rejects a data URL (line 159)
MinDataUrlLength == 100

\* what canvas.toDataURL can return, as the length of the string and
\* whether it is the string 'data:,': the empty string, 'data:,', another
\* string of 6 characters, strings just below and at the length limit
DataUrls ==
    {[chars |-> 0, blank |-> FALSE], [chars |-> 6, blank |-> TRUE],
     [chars |-> 6, blank |-> FALSE],
     [chars |-> MinDataUrlLength - 1, blank |-> FALSE],
     [chars |-> MinDataUrlLength, blank |-> FALSE]}

NoDataUrl == [chars |-> 0, blank |-> FALSE]

\* line 159: !dataUrl || dataUrl === 'data:,' || dataUrl.length < 100
PreviewInvalid(dataUrl) ==
    dataUrl.chars = 0 \/ dataUrl.blank \/ dataUrl.chars < MinDataUrlLength

\* line 224: !fullRes || fullRes === 'data:,' || !preview || preview === 'data:,'
ResultInvalid(fullRes, preview) ==
    \/ fullRes.chars = 0 \/ fullRes.blank
    \/ preview.chars = 0 \/ preview.blank

VARIABLES
    rnImage,        \* naturalWidth x naturalHeight of the loaded image
    rnPreviewFit,   \* the drawImage arguments on the preview canvas
    rnFullFit,      \* the drawImage arguments on the full-resolution canvas
    rnPreview,      \* the data URL of the preview canvas
    rnFullRes,      \* the data URL of the full-resolution canvas
    rnPc,           \* "idle", "loaded", "preview" (preview returned), "done"
                    \* ({ fullRes, preview } returned), "failed" (rejected)
    rnFormat,       \* the format argument of the render
    rnPreviewRect,  \* the rectangle filled on the preview canvas
    rnFullRect      \* the rectangle filled on the full-resolution canvas

renderVars == <<rnPc, rnFormat, rnPreviewRect, rnFullRect, rnImage, rnPreviewFit,
               rnFullFit, rnPreview, rnFullRes>>

RenderInit ==
    /\ rnPc = "idle"
    /\ rnFormat = "4k-desktop"
    /\ rnPreviewRect = NoRect
    /\ rnFullRect = NoRect
    /\ rnImage = [width |-> 1, height |-> 1]
    /\ rnPreviewFit = NoFit
    /\ rnFullFit = NoFit
    /\ rnPreview = NoDataUrl
    /\ rnFullRes = NoDataUrl

\* generateWallpaper is called with format f and the image, of size img,
\* is loaded
RenderStart(f, img) ==
    /\ rnPc = "idle"
    /\ rnPc' = "loaded"
    /\ rnFormat' = f
    /\ rnImage' = img
    /\ UNCHANGED <<rnPreviewRect, rnFullRect, rnPreviewFit, rnFullFit, rnPreview,
                   rnFullRes>>

\* generatePreviewImage (lines 133-163): the cover fit of the image, the
\* rectangle with the draws nw and nh, then toDataURL returns dataUrl,
\* which is checked
RenderPreview(nw, nh, dataUrl) ==
    /\ rnPc = "loaded"
    /\ rnPc' = IF PreviewInvalid(dataUrl) THEN "failed" ELSE "preview"
    /\ rnPreview' = dataUrl
    /\ rnPreviewFit' = CoverFit(rnImage, PreviewDimensions(rnFormat))
    /\ rnPreviewRect' = AccentRect(PreviewDimensions(rnFormat), nw, nh)
    /\ UNCHANGED <<rnFormat, rnFullRect, rnImage, rnFullFit, rnFullRes>>

\* the full-resolution render (lines 198-228): the cover fit of the image,
\* two fresh Math.random() draws nw and nh, whatever generatePreviewImage
\* drew, then toDataURL returns fullRes and the check of line 224 runs
RenderFull(nw, nh, fullRes) ==
    /\ rnPc = "preview"
    /\ rnPc' = IF ResultInvalid(fullRes, rnPreview) THEN "failed" ELSE "done"
    /\ rnFullRes' = fullRes
    /\ rnFullFit' = CoverFit(rnImage, FORMATS(rnFormat))
    /\ rnFullRect' = AccentRect(FORMATS(rnFormat), nw, nh)
    /\ UNCHANGED <<rnFormat, rnPreviewRect, rnImage, rnPreviewFit, rnPreview>>

RenderNext ==
    \/ \E f \in Formats, img \in ImageSizes : RenderStart(f, img)
    \/ \E nw \in Draws, nh \in Draws, d \in DataUrls : RenderPreview(nw, nh, d)
    \/ \E nw \in Draws, nh \in Draws, d \in DataUrls : RenderFull(nw, nh, d)

\* ------------------------------------------------------------------------
\* Pool finalization on arbitrary candidate lists (src/unnamed/part_000,
\* lines 204-260): the three category results are drawn from a bounded
\* family of lists, with repeated, fallback and invalid URLs, and the tail
\* of GET is applied to them.
\* ------------------------------------------------------------------------

\* how many times one URL may occur in a drawn category list
MaxRepeat == 2

\* NASA_API_KEY: 0 stands for the default 'DEMO_KEY', 1 for the value of
\* process.env.NASA_API_KEY of a deployment
ApiKeys == {0, 1}

\* the NASAImageResult of getEarthImages under the key: its url is the
\* request url, which ends in &api_key=${NASA_API_KEY}
EarthImageWithKey(key) == [url |-> <<"earth", key, 0>>, source |-> "earth"]

VARIABLES
    pPc,        \* "idle", "drawn" (category results settled), "done"
    pKey,       \* NASA_API_KEY of the process that served the request
    pApod,      \* apodImages
    pMars,      \* marsImages
    pEarth,     \* earthImages
    pResult     \* the result object built from them

poolVars == <<pPc, pKey, pApod, pMars, pEarth, pResult>>

PoolInit ==
    /\ pPc = "idle"
    /\ pKey = 0
    /\ pApod = <<>>
    /\ pMars = <<>>
    /\ pEarth = <<>>
    /\ pResult = NoResponse

\* which of the URLs the upstream API delivered are strings that new URL
\* rejects (the category functions take hdurl and img_src as they come)
InvalidModes == {"none", "last", "all"}

\* a category result of n NASAImageResults in which every URL occurs r
\* times, the first one is a fallback URL when fb, and the last one or
\* every one is a string that new URL rejects, as inv says
DrawnImages(cat, n, r, fb, inv) ==
    [i \in 1..n |->
        [url |-> IF inv = "all" THEN <<"invalid", 0, 0>>
                 ELSE IF fb /\ i = 1 THEN FallbackImages[1]
                 ELSE IF inv = "last" /\ i = n THEN <<"invalid", 0, 0>>
                 ELSE <<cat, ((i - 1) \div r) + 1, 0>>,
         source |-> cat]]

\* Promise.all resolves with three category results (lines 198-202)
PoolDraw(a, m, e, r, fb, inv, key) ==
    /\ pPc = "idle"
    /\ pPc' = "drawn"
    /\ pApod' = DrawnImages("apod", a, r, fb, IF inv = "all" THEN "all" ELSE "none")
    /\ pMars' = DrawnImages("mars", m, r, FALSE, inv)
    /\ pKey' = key
    /\ pEarth' = [i \in 1..e |-> EarthImageWithKey(key)]
    /\ pResult' = NoResponse

\* the rest of the try block builds the result with the shuffle k
PoolFinalize(k) ==
    /\ pPc = "drawn"
    /\ pPc' = "done"
    /\ pResult' = FreshResult(pApod, pMars, pEarth, k, 0)
    /\ UNCHANGED <<pKey, pApod, pMars, pEarth>>

PoolNext ==
    \/ \E a \in 0..ApodCount, m \in 0..(RoverCount * PhotosPerRover), e \in 0..1,
          r \in 1..MaxRepeat, fb \in BOOLEAN, inv \in InvalidModes,
          key \in ApiKeys :
          PoolDraw(a, m, e, r, fb, inv, key)
    \/ \E k \in ShuffleKeys : PoolFinalize(k)

\* ------------------------------------------------------------------------
\* The image relay: GET of /api/proxy-image (one request at a time; the
\* handler keeps no state between requests)
\* ------------------------------------------------------------------------

\* searchParams.get('url'): null when the parameter is absent, otherwise its
\* value, which may be the empty string
ProxyUrls == {"absent", "", "https://a.example/1.jpg", "https://b.example/2.png",
              "not a url"}

UpstreamStatuses == {200, 204, 301, 404, 500}

\* headers.get('content-type'): null when the header is absent
UpstreamContentTypes == {"absent", "", "image/png", "image/jpeg"}

\* response.arrayBuffer(): possibly zero bytes
UpstreamBodies == {"empty", "bytes1", "bytes2"}

NoUpstream == [threw |-> FALSE, status |-> 0, contentType |-> "absent"]

NoProxyResponse == [status |-> 0, body |-> "none", contentType |-> "none"]

VARIABLES
    xPc,        \* "idle", "fetching", "reading", "done"
    xUrl,       \* the url parameter of the request being handled
    xUpstream,  \* what fetch(imageUrl) settled with
    xResp,      \* the response the handler returned
    xFetches,   \* history: upstream fetches made for this request
    xRejected   \* history: the handler's promise rejected

proxyVars == <<xPc, xUrl, xUpstream, xResp, xFetches, xRejected>>

ProxyInit ==
    /\ xPc = "idle"
    /\ xUrl = "absent"
    /\ xUpstream = NoUpstream
    /\ xResp = NoProxyResponse
    /\ xFetches = 0
    /\ xRejected = FALSE

\* !imageUrl: null and the empty string are both falsy
UrlMissing(imageUrl) == imageUrl \in {"absent", ""}

\* a response that reports every status as OK
ResponseOkAlways(status) == TRUE

\* Response.ok: the status is in the range 200-299
ResponseOk(status) == status >= 200 /\ status <= 299

\* response.headers.get('content-type') || 'image/jpeg'
ContentTypeOf(header) == IF header \in {"absent", ""} THEN "image/jpeg" ELSE header

MissingUrlResponse ==
    [status |-> 400, body |-> "Missing image URL", contentType |-> "application/json"]

\* the catch block: every throw inside the try becomes this response
ProxyFailedResponse ==
    [status |-> 500, body |-> "Failed to proxy image", contentType |-> "application/json"]

\* GET is called: up to the first await, or to the 400 response
ProxyGet(imageUrl) ==
    /\ xPc \in {"idle", "done"}
    /\ xUrl' = imageUrl
    /\ xUpstream' = NoUpstream
    /\ xRejected' = FALSE
    /\ IF UrlMissing(imageUrl)
       THEN /\ xPc' = "done"
            /\ xResp' = MissingUrlResponse
            /\ xFetches' = 0
       ELSE /\ xPc' = "fetching"
            /\ xResp' = NoProxyResponse
            /\ xFetches' = 1

\* fetch(imageUrl) settles: it rejects, or resolves with a status and headers
ProxyFetchSettles(threw, status, header) ==
    /\ xPc = "fetching"
    /\ xUrl = "not a url" => threw
    /\ xUpstream' = IF threw THEN [NoUpstream EXCEPT !.threw = TRUE]
                    ELSE [threw |-> FALSE, status |-> status, contentType |-> header]
    /\ IF threw \/ ~ResponseOk(status)
       THEN /\ xPc' = "done"
            /\ xResp' = ProxyFailedResponse
       ELSE /\ xPc' = "reading"
            /\ xResp' = NoProxyResponse
    /\ UNCHANGED <<xUrl, xFetches, xRejected>>

\* response.arrayBuffer() settles: it rejects, or resolves with the bytes
ProxyBodySettles(threw, bytes) ==
    /\ xPc = "reading"
    /\ xPc' = "done"
    /\ xUpstream' = [xUpstream EXCEPT !.threw = threw]
    /\ xResp' = IF threw THEN ProxyFailedResponse
                ELSE [status |-> 200, body |-> bytes,
                      contentType |-> ContentTypeOf(xUpstream.contentType)]
    /\ UNCHANGED <<xUrl, xFetches, xRejected>>

ProxyNext ==
    \/ \E u \in ProxyUrls : ProxyGet(u)
    \/ \E t \in BOOLEAN, st \in UpstreamStatuses, h \in UpstreamContentTypes :
          ProxyFetchSettles(t, st, h)
    \/ \E t \in BOOLEAN, b \in UpstreamBodies : ProxyBodySettles(t, b)

\* ------------------------------------------------------------------------
\* loadImageAsBlob (src/src/hooks/useNASAImages.ts): one call, with the
\* requests it makes
\* ------------------------------------------------------------------------

\* fallbackUrl of the catch block
FallbackUrl == "https://images.unsplash.com/photo-1419242902214-272b3f66ee7a"

\* the URLs a slot can sample from the pool: the pool holds NASA URLs and,
\* when the server or the client fell back, the FALLBACK_IMAGES, whose first
\* entry is the fallbackUrl of the catch block
SampledUrls ==
    {FallbackUrl,
     "https://images.unsplash.com/photo-1502134249126-9f3755a50d78",
     "https://apod.nasa.gov/apod/image/a.jpg",
     "https://mars.nasa.gov/msl-raw-images/b.jpg",
     "https://api.nasa.gov/planetary/earth/imagery"}

UnsplashUrls ==
    {FallbackUrl, "https://images.unsplash.com/photo-1502134249126-9f3755a50d78"}

\* how a fetch and the reading of its body can end: resolved and read, a
\* rejected fetch, a non-OK status, a rejected blob()
FetchResults == {"ok", "network", "status", "body"}

VARIABLES
    ldPc,         \* "idle", "fetch", "decode", "fbFetch", "fbDecode",
                  \* "resolved", "rejected"
    ldUrl,        \* the imageUrl argument
    ldRequests,   \* history: the fetches made, in order
    ldPrimary,    \* history: how the sampled image ended ("pending", a
                  \* FetchResults value, "decoded" or "decode" for onerror)
    ldFallback,   \* history: the same for the fallback image ("none" when
                  \* it was not requested)
    ldImage       \* the image the call resolved with: "sampled",
                  \* "fallback" or "none"

loadVars == <<ldPc, ldUrl, ldRequests, ldPrimary, ldFallback, ldImage>>

LoadInit ==
    /\ ldPc = "idle"
    /\ ldUrl = FallbackUrl
    /\ ldRequests = <<>>
    /\ ldPrimary = "pending"
    /\ ldFallback = "none"
    /\ ldImage = "none"

\* lines 55-61: Unsplash images are fetched directly, all others through
\* the relay
FetchUrlOf(imageUrl) ==
    IF imageUrl \in UnsplashUrls
    THEN [via |-> "direct", url |-> imageUrl]
    ELSE [via |-> "proxy-image", url |-> imageUrl]

\* a catch block that only sees a rejected fetch
CaughtRejectedFetchOnly(result) == result = "network"

\* what the catch block of line 83 sees of the sampled image: everything
\* thrown up to the return of line 71
Caught(result) == result \in {"network", "status", "body"}

\* loadImageAsBlob(imageUrl) is called: up to the await of fetch(fetchUrl)
LoadCall(imageUrl) ==
    /\ ldPc \in {"idle", "resolved", "rejected"}
    /\ ldPc' = "fetch"
    /\ ldUrl' = imageUrl
    /\ ldRequests' = <<FetchUrlOf(imageUrl)>>
    /\ ldPrimary' = "pending"
    /\ ldFallback' = "none"
    /\ ldImage' = "none"

\* lines 63-69: the fetch of the sampled image and the reading of its body
\* settle; what the catch block sees makes it fetch the fallbackUrl
LoadFetchSettles(result) ==
    /\ ldPc = "fetch"
    /\ ldPrimary' = result
    /\ IF result = "ok"
       THEN /\ ldPc' = "decode"
            /\ UNCHANGED <<ldRequests, ldFallback>>
       ELSE IF Caught(result)
       THEN /\ ldPc' = "fbFetch"
            /\ ldRequests' = Append(ldRequests, [via |-> "direct", url |-> FallbackUrl])
            /\ ldFallback' = "pending"
       ELSE /\ ldPc' = "rejected"
            /\ UNCHANGED <<ldRequests, ldFallback>>
    /\ UNCHANGED <<ldUrl, ldImage>>

\* lines 71-82: the image element fires onload or onerror; the promise was
\* returned without await, so its rejection is not caught
LoadDecodeSettles(ok) ==
    /\ ldPc = "decode"
    /\ ldPc' = IF ok THEN "resolved" ELSE "rejected"
    /\ ldPrimary' = IF ok THEN "decoded" ELSE "decode"
    /\ ldImage' = IF ok THEN "sampled" ELSE "none"
    /\ UNCHANGED <<ldUrl, ldRequests, ldFallback>>

\* lines 88-94: the fetch of the fallback image and the reading of its body
\* settle; a throw here leaves the function
LoadFallbackFetchSettles(result) ==
    /\ ldPc = "fbFetch"
    /\ ldFallback' = result
    /\ ldPc' = IF result = "ok" THEN "fbDecode" ELSE "rejected"
    /\ UNCHANGED <<ldUrl, ldRequests, ldPrimary, ldImage>>

\* lines 96-107: the image element of the fallback fires onload or onerror
LoadFallbackDecodeSettles(ok) ==
    /\ ldPc = "fbDecode"
    /\ ldPc' = IF ok THEN "resolved" ELSE "rejected"
    /\ ldFallback' = IF ok THEN "decoded" ELSE "decode"
    /\ ldImage' = IF ok THEN "fallback" ELSE "none"
    /\ UNCHANGED <<ldUrl, ldRequests, ldPrimary>>

LoadNext ==
    \/ \E u \in SampledUrls : LoadCall(u)
    \/ \E r \in FetchResults : LoadFetchSettles(r)
    \/ \E ok \in BOOLEAN : LoadDecodeSettles(ok)
    \/ \E r \in FetchResults : LoadFallbackFetchSettles(r)
    \/ \E ok \in BOOLEAN : LoadFallbackDecodeSettles(ok)

\* ------------------------------------------------------------------------
\* useNASAImages (src/src/hooks/useNASAImages.ts): the client's candidate
\* pool; fetchNASAImages runs on mount and whenever the consumer calls
\* refetchImages, also while an earlier call is still awaiting
\* ------------------------------------------------------------------------

\* number of fetchNASAImages calls in one behaviour
MaxFetches == 3

FetchIds == 1..MaxFetches

\* FALLBACK_IMAGES of the client: the first five of the server's list
FALLBACK_IMAGES == [n \in 1..5 |-> <<"unsplash", n, 0>>]

\* what fetch('/api/nasa-images') and response.json() can end with: a
\* rejected fetch, a body that is not JSON, or the parsed object
PoolResponses ==
    {[kind |-> "network", success |-> FALSE, images |-> <<>>],
     [kind |-> "notJson", success |-> FALSE, images |-> <<>>],
     [kind |-> "json", success |-> TRUE, images |-> <<<<"apod", 1, 0>>, <<"mars", 1, 1>>>>],
     [kind |-> "json", success |-> TRUE, images |-> <<<<"unsplash", 8, 0>>>>],
     [kind |-> "json", success |-> TRUE, images |-> <<>>],
     [kind |-> "json", success |-> FALSE, images |-> FallbackImages],
     [kind |-> "json", success |-> FALSE, images |-> <<>>]}

NoPoolResponse == [kind |-> "none", success |-> FALSE, images |-> <<>>]

VARIABLES
    spaceImageSources,  \* useState
    isLoadingImages,    \* useState
    cFetch,             \* for each fetchNASAImages call: "none", "pending"
                        \* (awaiting fetch), "json" (awaiting json()), "done"
    cNext,              \* the number of the next call
    cLast               \* history: what the call that completed last received

clientVars == <<spaceImageSources, isLoadingImages, cFetch, cNext, cLast>>

ClientInit ==
    /\ spaceImageSources = <<>>
    /\ isLoadingImages = TRUE
    /\ cFetch = [f \in FetchIds |-> "none"]
    /\ cNext = 1
    /\ cLast = NoPoolResponse

\* a test that trusts data.success alone
SourcesOfTrustingSuccess(data) ==
    IF data.kind = "json" /\ data.success THEN data.images ELSE FALLBACK_IMAGES

\* lines 14-23: the list the call stores; the catch block answers a
\* rejected fetch and a body that is not JSON
SourcesOf(data) ==
    IF data.kind = "json" /\ data.success /\ Len(data.images) > 0
    THEN data.images
    ELSE FALLBACK_IMAGES

\* fetchNASAImages is called: setIsLoadingImages(true), then the fetch is
\* awaited
FetchNASAImages ==
    /\ cNext <= MaxFetches
    /\ isLoadingImages' = TRUE
    /\ cFetch' = [cFetch EXCEPT ![cNext] = "pending"]
    /\ cNext' = cNext + 1
    /\ UNCHANGED <<spaceImageSources, cLast>>

\* call f ends with data: the list is set in the try or the catch block,
\* isLoadingImages in the finally block
FetchEnds(f, data) ==
    /\ spaceImageSources' = SourcesOf(data)
    /\ isLoadingImages' = FALSE
    /\ cFetch' = [cFetch EXCEPT ![f] = "done"]
    /\ cLast' = data
    /\ UNCHANGED cNext

\* the fetch of call f settles: it resolves with a response, whose json()
\* is awaited next, or it rejects
FetchSettles(f, ok) ==
    /\ cFetch[f] = "pending"
    /\ IF ok
       THEN /\ cFetch' = [cFetch EXCEPT ![f] = "json"]
            /\ UNCHANGED <<spaceImageSources, isLoadingImages, cNext, cLast>>
       ELSE FetchEnds(f, [kind |-> "network", success |-> FALSE, images |-> <<>>])

\* response.json() of call f settles with the parsed object or rejects
JsonSettles(f, data) ==
    /\ cFetch[f] = "json"
    /\ data.kind # "network"
    /\ FetchEnds(f, data)

\* what the event loop owes call f: its fetch and its json() settle
FetchProgress(f) ==
    \/ \E ok \in BOOLEAN : FetchSettles(f, ok)
    \/ \E data \in PoolResponses : JsonSettles(f, data)

ClientNext ==
    \/ FetchNASAImages
    \/ \E f \in FetchIds, ok \in BOOLEAN : FetchSettles(f, ok)
    \/ \E f \in FetchIds, data \in PoolResponses : JsonSettles(f, data)

\* ------------------------------------------------------------------------
\* Specifications
\* ------------------------------------------------------------------------

vars == <<cacheVars, sweepVars, retryVars, aggVars, getVars, genVars,
          renderVars, poolVars, proxyVars, loadVars, clientVars>>

Init ==
    /\ CacheInit /\ SweepInit /\ RetryInit /\ AggInit /\ GetInit /\ GenInit
    /\ RenderInit /\ PoolInit /\ ProxyInit /\ LoadInit /\ ClientInit

CacheSpecNext ==
    /\ CacheNext
    /\ UNCHANGED <<sweepVars, retryVars, aggVars, getVars, genVars,
                   renderVars, poolVars, proxyVars, loadVars, clientVars>>

SweepSpecNext ==
    /\ SweepNext
    /\ UNCHANGED <<cacheVars, retryVars, aggVars, getVars, genVars,
                   renderVars, poolVars, proxyVars, loadVars, clientVars>>

RetrySpecNext ==
    /\ RetryNext
    /\ UNCHANGED <<cacheVars, sweepVars, aggVars, getVars, genVars,
                   renderVars, poolVars, proxyVars, loadVars, clientVars>>

AggSpecNext ==
    /\ AggNext
    /\ UNCHANGED <<sweepVars, retryVars, getVars, genVars, renderVars,
                   poolVars, proxyVars, loadVars, clientVars>>

GetSpecNext ==
    /\ GetNext
    /\ UNCHANGED <<sweepVars, retryVars, aggVars, genVars, renderVars,
                   poolVars, proxyVars, loadVars, clientVars>>

GenSpecNext ==
    /\ GenNext
    /\ UNCHANGED <<cacheVars, sweepVars, retryVars, aggVars, getVars,
                   renderVars, poolVars, proxyVars, loadVars, clientVars>>

RenderSpecNext ==
    /\ RenderNext
    /\ UNCHANGED <<cacheVars, sweepVars, retryVars, aggVars, getVars, genVars,
                   poolVars, proxyVars, loadVars, clientVars>>

ShowSpecNext ==
    /\ ShowNext
    /\ UNCHANGED <<cacheVars, sweepVars, retryVars, aggVars, getVars,
                   renderVars, poolVars, proxyVars, loadVars, clientVars>>

PoolSpecNext ==
    /\ PoolNext
    /\ UNCHANGED <<cacheVars, sweepVars, retryVars, aggVars, getVars, genVars,
                   renderVars, proxyVars, loadVars, clientVars>>

ProxySpecNext ==
    /\ ProxyNext
    /\ UNCHANGED <<cacheVars, sweepVars, retryVars, aggVars, getVars, genVars,
                   renderVars, poolVars, loadVars, clientVars>>

LoadSpecNext ==
    /\ LoadNext
    /\ UNCHANGED <<cacheVars, sweepVars, retryVars, aggVars, getVars, genVars,
                   renderVars, poolVars, proxyVars, clientVars>>

GenLiveSpecNext ==
    /\ GenLiveNext
    /\ UNCHANGED <<cacheVars, sweepVars, retryVars, aggVars, getVars,
                   renderVars, poolVars, proxyVars, loadVars, clientVars>>

ClientSpecNext ==
    /\ ClientNext
    /\ UNCHANGED <<cacheVars, sweepVars, retryVars, aggVars, getVars, genVars,
                   renderVars, poolVars, proxyVars, loadVars>>

SpecCache == Init /\ [][CacheSpecNext]_vars

SpecSweep == Init /\ [][SweepSpecNext]_vars

SpecRetry == Init /\ [][RetrySpecNext]_vars

SpecAgg == Init /\ [][AggSpecNext]_vars

SpecGet == Init /\ [][GetSpecNext]_vars

SpecGen == Init /\ [][GenSpecNext]_vars

SpecRender == Init /\ [][RenderSpecNext]_vars

SpecShow == Init /\ [][ShowSpecNext]_vars

SpecPool == Init /\ [][PoolSpecNext]_vars

SpecProxy == Init /\ [][ProxySpecNext]_vars

SpecLoad == Init /\ [][LoadSpecNext]_vars

GenLiveFairness ==
    \A p \in PassIds :
        WF_vars(/\ PassProgress(p)
                /\ UNCHANGED <<cacheVars, sweepVars, retryVars, aggVars,
                           getVars, renderVars, poolVars, proxyVars, loadVars,
                           clientVars>>)

SpecGenLive == Init /\ [][GenLiveSpecNext]_vars /\ GenLiveFairness

ClientFairness ==
    \A f \in FetchIds :
        WF_vars(/\ FetchProgress(f)
                /\ UNCHANGED <<cacheVars, sweepVars, retryVars, aggVars,
                           getVars, genVars, renderVars, poolVars, proxyVars,
                           loadVars>>)

SpecClient == Init /\ [][ClientSpecNext]_vars /\ ClientFairness

\* ------------------------------------------------------------------------
\* Properties of MemoryCache (SpecCache)
\* ------------------------------------------------------------------------

\* what the TTL contract says get(k) returns now: the value of the last set
\* on k that no delete/clear followed, for as long as now - c <= t * 60000 ms
ContractGet(k) ==
    IF k \in DOMAIN live /\ now - live[k].c <= live[k].t * 60000
    THEN live[k].v
    ELSE Null

\* C1: after set(k, v, t) at time c with no later set/delete/clear on k, a
\* get(k) at time n returns v when n - c <= t*60000 ms and null when
\* n - c > t*60000 ms, whatever gets and cleanups ran in between.
C1_CacheTTL ==
    lastGet.called => lastGet.result = ContractGet(lastGet.key)

\* C1 witness: set(k, payload, 1), and a get 61 seconds later returns null,
\* although no delete/clear removed the entry.
C1_Witness ==
    /\ lastGet.called
    /\ lastGet.key \in DOMAIN live
    /\ live[lastGet.key].t = 1
    /\ now - live[lastGet.key].c = 61000
    /\ lastGet.result = Null

\* C10: the store never holds a mixture of two sets: every entry in the Map
\* is, field by field, the entry built by the last set call on its key
\* (last write wins), and a get that hits returns that call's data.
C10_SetAtomicLastWriteWins ==
    /\ \A k \in DOMAIN cache :
          /\ k \in DOMAIN live
          /\ cache[k] = [data |-> live[k].v, timestamp |-> live[k].c,
                         ttl |-> live[k].t * 60000]
    /\ (lastGet.called /\ lastGet.result # Null) =>
          /\ lastGet.key \in DOMAIN live
          /\ lastGet.result = live[lastGet.key].v

\* C10 witness: a set by one request replaced the entry another request had
\* set on the same key at an earlier time, with other data and ttl, and a
\* get by the first writer then hit.
C10_Witness ==
    /\ lastGet.called
    /\ lastGet.result # Null
    /\ lastGet.key \in DOMAIN live
    /\ live[lastGet.key].over \notin {0, live[lastGet.key].by}
    /\ lastGet.by = live[lastGet.key].over

\* C11: a get(k) that finds an expired entry removes it from the Map before
\* it returns null, so k is not a key of the store right after it, and every
\* other entry stays as it was; a get that finds an unexpired entry (or no
\* entry) leaves the store unchanged. No cleanup() is needed for either.
C11_GetEvictsExpired ==
    [][lastGet'.called =>
          LET k == lastGet'.key IN
          IF k \in DOMAIN cache /\ now - cache[k].timestamp > cache[k].ttl
          THEN /\ lastGet'.result = Null
               /\ DOMAIN cache' = (DOMAIN cache) \ {k}
               /\ \A x \in DOMAIN cache' : cache'[x] = cache[x]
          ELSE cache' = cache]_vars

\* C11 witness: a get on a key whose last set has expired (and that no
\* delete/clear removed) answered null and the key is not in the store,
\* while the other key's entry, set at the same time with the same ttl, is
\* still in the Map: no cleanup() ran since the two expired, so it was a
\* get that removed the entry.
C11_Witness ==
    /\ lastGet.called
    /\ lastGet.result = Null
    /\ lastGet.key \in DOMAIN live
    /\ lastGet.key \notin DOMAIN cache
    /\ \E j \in DOMAIN cache :
          /\ j # lastGet.key
          /\ cache[j].timestamp = live[lastGet.key].c
          /\ cache[j].ttl = live[lastGet.key].t * 60000
          /\ now - cache[j].timestamp > cache[j].ttl
    /\ live[lastGet.key].c > 0

\* C12: the periodic sweep is only an optimisation: with the same sets,
\* gets, deletes, clears and clock advances, every get returns the same
\* result on the cache whose cleanup() ran at arbitrary points as on the
\* cache whose cleanup() never ran, and so would a get on any key now.
C12_SweepIsOnlyOptimisation ==
    /\ swGet.called => swGet.swept = swGet.unswept
    /\ \A k \in Keys :
          CacheGetResult(swCache, k, swNow) = CacheGetResult(swShadow, k, swNow)

\* C12 witness: cleanup() has removed an entry that the unswept cache still
\* holds, and a get that ran after it hit on both caches.
C12_Witness ==
    /\ swGet.called
    /\ swGet.swept # Null
    /\ swGet.unswept # Null
    /\ (DOMAIN swShadow) \ (DOMAIN swCache) # {}

\* C15 (as claimed): whenever at least one upstream call of an aggregation
\* has succeeded, the merged candidate list of that aggregation (imageUrls,
\* before the fallback merge) is non-empty.
C15_SuccessYieldsCandidate ==
    (aPc = "responded" /\ ~aCaught /\ (aApod.ok \/ aMars.ok \/ aEarth.ok)) =>
        aResp.metadata.nasa_images_count > 0

\* C15 (amended): the merged candidate list is non-empty exactly when some
\* successful call returned an entry that passed its category's filter (an
\* APOD entry that is an image with an hdurl, a rover photo that is a JPG
\* and not NAVCAM, the Earth imagery response); it is empty, and the source
\* is "fallback", when every call failed or had all its entries filtered.
C15_KeptEntryYieldsCandidate ==
    (aPc = "responded" /\ ~aCaught) =>
        IF aApod.kept \/ aMars.kept \/ aEarth.kept
        THEN aResp.metadata.nasa_images_count > 0 /\ aResp.source = "nasa_api"
        ELSE aResp.metadata.nasa_images_count = 0 /\ aResp.source = "fallback"

\* C15 witness: every APOD call succeeded with an entry that was dropped,
\* the rover calls failed, and the one Earth imagery call supplied the only
\* candidate.
C15_Witness ==
    /\ aPc = "responded"
    /\ ~aCaught
    /\ aApod.ok /\ ~aApod.kept /\ aApod.last = "dropped"
    /\ ~aMars.ok
    /\ aEarth.kept
    /\ aResp.metadata.nasa_images_count = 1

\* C17: within getAPODImages and getMarsRoverImages, every call after the
\* first is issued at least 100 ms after the previous call of the loop has
\* settled, also when that call failed.
C17_InterCallDelay ==
    /\ (aApod.pc = "call" /\ aApod.i > 0) => aApod.waited >= 100
    /\ (aMars.pc = "call" /\ aMars.i > 0) => aMars.waited >= 100

\* ------------------------------------------------------------------------
\* Properties of the pool finalization (SpecPool)
\* ------------------------------------------------------------------------

\* imageUrls of line 209
PoolImageUrls == UrlsOf(pApod \o pMars \o pEarth)

\* the merged candidate list after the fallback merge step (lines 224-229)
PoolMerged ==
    IF Len(PoolImageUrls) < 15 THEN PoolImageUrls \o FallbackImages
    ELSE PoolImageUrls

\* the distinct URLs of the merged list that new URL accepts
PoolDistinctValid ==
    {PoolMerged[n] : n \in 1..Len(PoolMerged)} \ {<<"invalid", 0, 0>>}

\* C13: whatever the merged candidate list, with the same URL several
\* times or with a URL that is also a fallback image, the images list of
\* the response holds each URL at most once.
C13_PoolDedup ==
    pPc = "done" =>
        \A i, j \in 1..Len(pResult.images) :
            i # j => pResult.images[i] # pResult.images[j]

\* C13 witness: the category results held one URL twice and a fallback URL,
\* the fallback images were appended, and both URLs are in the response.
C13_Witness ==
    /\ pPc = "done"
    /\ Len(PoolImageUrls) < 15
    /\ \E i, j \in 1..Len(PoolImageUrls) :
          /\ i < j
          /\ PoolImageUrls[i] = PoolImageUrls[j]
          /\ \E n \in 1..Len(pResult.images) : pResult.images[n] = PoolImageUrls[i]
    /\ \E i \in 1..Len(PoolImageUrls), n \in 1..Len(pResult.images) :
          /\ PoolImageUrls[i] = FallbackImages[1]
          /\ pResult.images[n] = FallbackImages[1]

\* C14: the images list has min(20, D) elements, D being the number of
\* distinct valid URLs of the merged candidate list after the fallback
\* merge; each element is one of those URLs; total_returned is its length.
C14_PoolSizeBound ==
    pPc = "done" =>
        /\ Len(pResult.images) =
              IF Cardinality(PoolDistinctValid) < 20
              THEN Cardinality(PoolDistinctValid) ELSE 20
        /\ \A n \in 1..Len(pResult.images) : pResult.images[n] \in PoolDistinctValid
        /\ pResult.metadata.total_returned = Len(pResult.images)

\* C14 witness: 14 candidates, one of them invalid, were merged with the
\* fallback images to 21 distinct valid URLs, and 20 were returned.
C14_Witness ==
    /\ pPc = "done"
    /\ Len(PoolImageUrls) = 14
    /\ Cardinality(PoolDistinctValid) = 21
    /\ \E n \in 1..Len(PoolMerged) : PoolMerged[n] = <<"invalid", 0, 0>>
    /\ Len(pResult.images) = 20
    /\ pResult.metadata.total_returned = 20

\* C33: every response carries a non-empty images list, whatever the
\* upstream results were, also a merged list of 15 or more entries that are
\* all duplicates or all rejected by the URL validation.
C33_ImagesNeverEmpty ==
    pPc = "done" => Len(pResult.images) > 0

\* the URLs of the finalized pool
PoolReturned == {pResult.images[n] : n \in 1..Len(pResult.images)}

\* the distinct upstream URLs that new URL accepts
UpstreamDistinctValid ==
    {PoolImageUrls[n] : n \in 1..Len(PoolImageUrls)} \ {<<"invalid", 0, 0>>}

UrlUnderKey(u, key) == IF u[1] = "earth" THEN <<"earth", key, u[3]>> ELSE u

\* C38: the images list of a response does not depend on NASA_API_KEY: a
\* run that differs only in the key returns the same URLs for the same
\* upstream results, i.e. no returned URL contains the key.
C38_KeyNotInImages ==
    pPc = "done" =>
        \A n \in 1..Len(pResult.images), key \in ApiKeys :
            UrlUnderKey(pResult.images[n], key) = pResult.images[n]

\* C22: right after cleanup() the store holds no entry with now -
\* timestamp > ttl, and every entry that was unexpired when cleanup() ran
\* is still there with the same data, timestamp and ttl; nothing else is.
C22_CleanupRemovesExactlyExpired ==
    swSwept.ran =>
        /\ \A k \in DOMAIN swCache :
              ~(swNow - swCache[k].timestamp > swCache[k].ttl)
        /\ \A k \in DOMAIN swSwept.before :
              IF swNow - swSwept.before[k].timestamp > swSwept.before[k].ttl
              THEN k \notin DOMAIN swCache
              ELSE k \in DOMAIN swCache /\ swCache[k] = swSwept.before[k]
        /\ DOMAIN swCache \subseteq DOMAIN swSwept.before

\* C22 witness: cleanup() found an expired entry and an unexpired one,
\* removed the first and kept the second.
C22_Witness ==
    /\ swSwept.ran
    /\ \E k, j \in DOMAIN swSwept.before :
          /\ k # j
          /\ swNow - swSwept.before[k].timestamp > swSwept.before[k].ttl
          /\ swNow - swSwept.before[j].timestamp <= swSwept.before[j].ttl
          /\ DOMAIN swCache = {j}

\* C24: overlapping image-pool GET requests that found no unexpired cache
\* entry share one upstream aggregation: at no time is more than one
\* aggregation in flight (the requests would then all answer with its
\* images list).
C24_SingleAggregationInFlight ==
    Cardinality({r \in Requests : gPc[r] = "fetching"}) <= 1

\* C25: when generateAllWallpapers was invoked again while an earlier pass
\* was running, then once every pass has finished and its delayed state
\* update has fired, the wallpapers shown are those of the pass that was
\* started last.
C25_LatestStartedPassWins ==
    (/\ nextPass > 2
     /\ \A p \in 1..(nextPass - 1) : passes[p].pc = "done")
        => \A n \in 1..Len(wallpapers) : wallpapers[n].pass = nextPass - 1

\* C26: whenever wallpapers are shown and downloadable (isGenerating is
\* false and wallpapers is not empty), every one of them was rendered at the
\* dimensions of the selected format, the one the download file name
\* carries.
C26_ShownWallpapersMatchFormat ==
    (~isGenerating /\ Len(wallpapers) > 0)
        => \A n \in 1..Len(wallpapers) :
              FORMATS(wallpapers[n].fmt) = FORMATS(format)

\* the positions of a pass between setIsGenerating(true) and its finally
\* block
PassRunning == {"delay", "load", "decode", "fbLoad", "fbDecode"}

\* C27: every invocation of generateAllWallpapers, when its timers fire and
\* its image loads settle, comes to its end (all slots done, or a load, a
\* render or a canvas check threw and was caught) and has then set
\* isGenerating to false.
C27_EveryPassTerminates ==
    \A p \in PassIds :
        (passes[p].pc \in PassRunning)
            ~> (passes[p].pc \in {"failed", "timer", "done"} /\ ~isGenerating)

\* C27 witness: a pass ended in its catch block after a canvas was missing
\* at its second slot, and isGenerating is false.
C27_Witness ==
    /\ passes[1].pc = "failed"
    /\ passes[1].fail = "canvas"
    /\ passes[1].slot = 1
    /\ ~isGenerating

\* C28: a pass in which a slot throws leaves wallpapers, previewImages and
\* imageLoadErrors as they were: the step in which the slot throws sets none
\* of them, and from then on the pass does nothing more (no later slot is
\* generated, no state update is scheduled or made).
C28_FailedPassLeavesOutput ==
    [][\A p \in PassIds :
          /\ (passes[p].fail = "none" /\ passes'[p].fail # "none")
                => /\ UNCHANGED <<wallpapers, previewImages, imageLoadErrors>>
                   /\ passes'[p].results = <<>>
          /\ passes[p].fail # "none" => passes'[p] = passes[p]]_vars

\* C28 witness: a pass rendered its first slot, its second slot threw, and
\* nothing is shown.
C28_Witness ==
    /\ passes[1].pc = "failed"
    /\ passes[1].fail = "fullRes"
    /\ passes[1].slot = 1
    /\ wallpapers = <<>>
    /\ previewImages = <<>>

\* C29: isGenerating is true exactly while at least one pass has started
\* and not yet reached the end of its finally block, also when passes
\* overlap.
C29_IsGeneratingWhileAnyPassRuns ==
    isGenerating <=> (\E p \in PassIds : passes[p].pc \in PassRunning)

\* ------------------------------------------------------------------------
\* Properties of loadImageAsBlob (SpecLoad)
\* ------------------------------------------------------------------------

\* how often a URL was requested by the call
TimesRequested(url) ==
    Cardinality({n \in 1..Len(ldRequests) : ldRequests[n].url = url})

TransportFailures == {"network", "status", "body"}

\* what the chain does with the images, whichever URLs are involved
SourceChainOutcome ==
    /\ (ldPrimary \in TransportFailures /\ ldFallback = "decoded")
          => ldPc = "resolved" /\ ldImage = "fallback"
    /\ (ldPrimary \in TransportFailures /\ ldFallback # "decoded")
          => ldPc = "rejected"
    /\ ldPrimary = "decoded" => ldPc = "resolved" /\ ldImage = "sampled"

\* C30 as stated: once the call has settled, a transport failure of the
\* sampled URL has had the fallback URL requested exactly once, the call
\* resolving with the fallback image or rejecting if that failed too; and
\* the fallback URL was never requested when the sampled image was fetched
\* and decoded.
C30_SourceChain ==
    ldPc \in {"resolved", "rejected"} =>
        /\ SourceChainOutcome
        /\ ldPrimary \in TransportFailures => TimesRequested(FallbackUrl) = 1
        /\ ldPrimary = "decoded" => TimesRequested(FallbackUrl) = 0

\* C30 amended: the statement is about the second request of the call:
\* after a transport failure exactly one more request is made, to the
\* fallback URL, and none after the sampled image was fetched and decoded;
\* the sampled URL may itself be the fallback URL.
C30_SourceChainSecondRequest ==
    ldPc \in {"resolved", "rejected"} =>
        /\ SourceChainOutcome
        /\ ldRequests[1] = FetchUrlOf(ldUrl)
        /\ ldPrimary \in TransportFailures
              => /\ Len(ldRequests) = 2
                 /\ ldRequests[2] = [via |-> "direct", url |-> FallbackUrl]
        /\ ldPrimary = "decoded" => Len(ldRequests) = 1

\* C30 witness: the relay answered the sampled NASA image with a non-OK
\* status, the fallback URL was fetched once and the call resolved with it.
C30_Witness ==
    /\ ldPc = "resolved"
    /\ ldUrl = "https://apod.nasa.gov/apod/image/a.jpg"
    /\ ldPrimary = "status"
    /\ ldRequests = <<[via |-> "proxy-image", url |-> ldUrl],
                      [via |-> "direct", url |-> FallbackUrl]>>
    /\ ldImage = "fallback"

\* ------------------------------------------------------------------------
\* Properties of useNASAImages (SpecClient)
\* ------------------------------------------------------------------------

\* the client pool after a completed fetch, as the claim has it
PoolAfterFetch ==
    (cLast.kind # "none" /\ ~isLoadingImages) =>
        /\ Len(spaceImageSources) > 0
        /\ spaceImageSources =
              IF cLast.kind = "json" /\ cLast.success /\ cLast.images # <<>>
              THEN cLast.images
              ELSE [n \in 1..5 |-> <<"unsplash", n, 0>>]

\* C34: whenever a fetch has completed and isLoadingImages is false,
\* spaceImageSources is non-empty: the server's images when the response
\* has success = true and a non-empty list, the client's FALLBACK_IMAGES in
\* every other case; and every fetchNASAImages call that was started
\* completes with isLoadingImages false.
C34_ClientPoolNonEmpty ==
    /\ []PoolAfterFetch
    /\ \A f \in FetchIds :
          (cFetch[f] \in {"pending", "json"})
              ~> (cFetch[f] = "done" /\ ~isLoadingImages)

\* C34 witness: the server answered success = true with an empty list, and
\* the client holds its five fallback images.
C34_Witness ==
    /\ ~isLoadingImages
    /\ cLast = [kind |-> "json", success |-> TRUE, images |-> <<>>]
    /\ Len(spaceImageSources) = 5

\* C37: the preview canvas of a render has exactly the aspect ratio of the
\* full-resolution canvas of its format: previewWidth * fullHeight =
\* previewHeight * fullWidth.
C37_PreviewAspectRatio ==
    rnPc # "idle" =>
        PreviewDimensions(rnFormat).width * FORMATS(rnFormat).height
            = PreviewDimensions(rnFormat).height * FORMATS(rnFormat).width

\* ------------------------------------------------------------------------
\* Properties of the image relay (SpecProxy)
\* ------------------------------------------------------------------------

\* the upstream fetch threw, answered with a non-OK status, or its body
\* could not be read
UpstreamFailed ==
    xUpstream.threw \/ xUpstream.status < 200 \/ xUpstream.status > 299

RelayedWith(contentType) ==
    /\ xResp.status = 200
    /\ xResp.body \in UpstreamBodies
    /\ xResp.contentType = contentType

\* C23 as stated: a request without the url parameter gets 400 and no
\* upstream fetch; one whose upstream fetch throws or is non-OK gets 500;
\* every other request gets the upstream bytes with the upstream
\* content-type, image/jpeg when the header is absent; the handler never
\* throws.
C23_ThreeOutcomes ==
    xPc = "done" =>
        /\ ~xRejected
        /\ IF xUrl = "absent"
           THEN xResp.status = 400 /\ xFetches = 0
           ELSE IF UpstreamFailed
           THEN xResp.status = 500
           ELSE RelayedWith(IF xUpstream.contentType = "absent"
                            THEN "image/jpeg" ELSE xUpstream.contentType)

\* C23 amended: the 400 answer is also given when the url parameter is
\* present but empty, and image/jpeg is also used when the upstream
\* content-type header is present but empty.
C23_ThreeOutcomesFalsy ==
    xPc = "done" =>
        /\ ~xRejected
        /\ IF xUrl \in {"absent", ""}
           THEN xResp.status = 400 /\ xFetches = 0
           ELSE IF UpstreamFailed
           THEN xResp.status = 500 /\ xFetches = 1
           ELSE /\ xFetches = 1
                /\ RelayedWith(IF xUpstream.contentType \in {"absent", ""}
                               THEN "image/jpeg" ELSE xUpstream.contentType)

\* C23 witness: a request with a url was answered with the upstream bytes
\* under the default content-type, the upstream having sent none.
C23_Witness ==
    /\ xPc = "done"
    /\ xUrl = "https://a.example/1.jpg"
    /\ xUpstream = [threw |-> FALSE, status |-> 200, contentType |-> "absent"]
    /\ xResp = [status |-> 200, body |-> "bytes1", contentType |-> "image/jpeg"]

\* ------------------------------------------------------------------------
\* Properties of fetchWithRetry (SpecRetry)
\* ------------------------------------------------------------------------

\* C2: one call issues at most 3 fetches, issues none after a fetch that
\* succeeded, and a call whose every attempt failed ends, after exactly 3
\* fetches, by throwing to its caller.
C2_RetryCeiling ==
    /\ Len(rLog) <= 3
    /\ \A j \in 1..Len(rLog) :
          rLog[j] = "ok" => (j = Len(rLog) /\ rPc = "returned")
    /\ (rPc = "returned") => (Len(rLog) >= 1 /\ rLog[Len(rLog)] = "ok")
    /\ (rPc = "threw") => (Len(rLog) = 3 /\ \A j \in 1..3 : rLog[j] # "ok")
    /\ (Len(rLog) = 3) => (rPc # "fetch")

\* C2 witness: a call that met a network error, a non-OK status and a 429
\* has thrown after its third fetch.
C2_Witness ==
    /\ rPc = "threw"
    /\ rLog = <<"network", "500", "429">>

\* C16: the wait between failed attempt k (k = 1, 2) and attempt k + 1 is
\* 2000*k ms when attempt k returned HTTP 429 and 1000*k ms when it failed
\* in any other way, and attempt k + 1 is not issued before that wait has
\* elapsed: every fetch but the first is preceded by a completed wait.
C16_BackoffSchedule ==
    /\ \A k \in 1..Len(rWaits) :
          (k <= 2) =>
              /\ k <= Len(rLog)
              /\ rLog[k] # "ok"
              /\ rWaits[k] = (IF rLog[k] = "429" THEN 2000 * k ELSE 1000 * k)
    /\ Len(rLog) <= Len(rWaits) + 1
    /\ (rPc = "fetch") => (Len(rWaits) = Len(rLog))
    /\ (rPc = "backoff" /\ Len(rLog) <= 2) =>
          rWait = (IF rLog[Len(rLog)] = "429" THEN 2000 * Len(rLog)
                   ELSE 1000 * Len(rLog))

\* C16 witness: a network error, then a 429, then an OK response: the call
\* waited 1000 ms before its second fetch and 4000 ms before its third.
C16_Witness ==
    /\ rPc = "returned"
    /\ rLog = <<"network", "429", "ok">>
    /\ rWaits = <<1000, 4000>>

\* C31: every backoff wait of fetchWithRetry is followed by another fetch:
\* no wait is started after the third failed attempt, whatever the failure,
\* and a call that threw has waited at most twice.
C31_NoWaitAfterFinalAttempt ==
    /\ rPc = "backoff" => Len(rLog) < 3
    /\ rPc = "threw" => Len(rWaits) < 3

\* ------------------------------------------------------------------------
\* Properties of one GET of the image-pool endpoint (SpecAgg)
\* ------------------------------------------------------------------------

\* C7: the GET never surfaces a hard failure: whatever the upstream calls
\* did, its response is a structured object with success and images; when
\* the catch block ran, the response has success = false, the eight
\* fallback images and an error message.
C7_NeverHardFailure ==
    aPc = "responded" =>
        /\ {"success", "images", "source"} \subseteq DOMAIN aResp
        /\ aResp.success \in BOOLEAN
        /\ aCaught =>
              /\ aResp.success = FALSE
              /\ aResp.images = [n \in 1..8 |-> <<"unsplash", n, 0>>]
              /\ "error" \in DOMAIN aResp
        /\ ~aCaught => aResp.success = TRUE

\* C7 witness: every upstream call of the GET has failed (retries exhausted
\* or malformed body), an exception was caught, and a response was sent.
C7_Witness ==
    /\ aPc = "responded"
    /\ aCaught
    /\ aApod.images = <<>> /\ aApod.last = "badBody"
    /\ aMars.images = <<>> /\ aMars.last = "exhausted"
    /\ aEarth.last = "exhausted"
    /\ aResp.success = FALSE

\* the urls of the candidates the three category functions have collected
CandidateUrls ==
    {aApod.images[n].url : n \in 1..Len(aApod.images)}
        \cup {aMars.images[n].url : n \in 1..Len(aMars.images)}
        \cup {aEarth.images[n].url : n \in 1..Len(aEarth.images)}

\* C8: an upstream call whose retries are exhausted contributes no
\* candidate and aborts nothing: no category function throws, each goes on
\* to issue its remaining calls (8 days, 3 rovers), and the candidates of
\* all three categories are merged into the result of the GET.
C8_ExhaustedCallIsolated ==
    /\ "threw" \notin {aApod.pc, aMars.pc, aEarth.pc}
    /\ aApod.last = "exhausted" =>
          /\ \A n \in 1..Len(aApod.images) : aApod.images[n].url[2] # aApod.i - 1
          /\ aApod.pc = (IF aApod.i < 8 THEN "call" ELSE "done")
    /\ aMars.last = "exhausted" =>
          /\ \A n \in 1..Len(aMars.images) : aMars.images[n].url[2] # aMars.i - 1
          /\ aMars.pc = (IF aMars.i < 3 THEN "call" ELSE "done")
    /\ aEarth.last = "exhausted" => aEarth.images = <<>>
    /\ aApod.pc = "done" => aApod.i = 8
    /\ aMars.pc = "done" => aMars.i = 3
    /\ (aPc = "responded" /\ ~aCaught) =>
          /\ aResp.metadata.apod_count = Len(aApod.images)
          /\ aResp.metadata.mars_count = Len(aMars.images)
          /\ aResp.metadata.earth_count = Len(aEarth.images)
          /\ aResp.metadata.nasa_images_count =
                Len(aApod.images) + Len(aMars.images) + Len(aEarth.images)
          /\ Len(aResp.images) < 20 =>
                CandidateUrls \subseteq {aResp.images[n] : n \in 1..Len(aResp.images)}

\* C8 witness: the last calls of getAPODImages and of getMarsRoverImages
\* and the call of getEarthImages exhausted their retries, and the
\* candidates of the earlier days and rovers are in the response.
C8_Witness ==
    /\ aPc = "responded"
    /\ ~aCaught
    /\ aApod.last = "exhausted" /\ Len(aApod.images) = 7
    /\ aMars.last = "exhausted" /\ Len(aMars.images) = 4
    /\ aEarth.last = "exhausted"
    /\ Len(aResp.images) = 19

\* ------------------------------------------------------------------------
\* Properties of concurrent GETs against the cache (SpecGet)
\* ------------------------------------------------------------------------

C32_FallbackPoolNotCached ==
    /\ CacheKey \in DOMAIN cache => cache[CacheKey].data.source # "fallback"
    /\ \A r \in Requests :
          (gPc[r] = "responded" /\ gUpstream[r] = 0)
              => gResp[r].source # "fallback"

\* ------------------------------------------------------------------------
\* Properties of the generation passes (SpecGen)
\* ------------------------------------------------------------------------

\* the causes that are a failure to load the image of a slot
LoadFailures == {"primaryDecode", "fallbackFetch", "fallbackDecode"}

\* C3: a sampled image that was fetched but fails to decode does not abort
\* the generation pass (the slot is rendered from the fallback image).
C3_DecodeFailureDoesNotAbort ==
    \A p \in PassIds :
        ~(passes[p].pc = "failed" /\ passes[p].fail = "primaryDecode")

\* C4: slot isolation: a pass in which loading failed for slot i still
\* generates every other slot j # i.
C4_SlotIsolation ==
    \A p \in PassIds :
        (passes[p].pc = "failed" /\ passes[p].fail \in LoadFailures) =>
            \A j \in {Slots[n] : n \in 1..Len(Slots)} \ {passes[p].slot} :
                \E n \in 1..Len(passes[p].results) :
                    passes[p].results[n].fullRes.slot = j

\* C5: after every generation pass that has finished, whatever failed in
\* it, wallpapers, previewImages and the error flags have length 3.
C5_OutputLengthIsThree ==
    (\E p \in PassIds : passes[p].pc \in {"failed", "done"}) =>
        /\ Len(wallpapers) = 3
        /\ Len(previewImages) = 3
        /\ Len(imageLoadErrors) = 3

\* the two artifacts of a slot result come from one render of slot i by
\* pass p: same slot, same loaded image
ArtifactPairOf(fullRes, preview, p, i) ==
    /\ fullRes.pass = p /\ preview.pass = p
    /\ fullRes.slot = i /\ preview.slot = i
    /\ fullRes.src = preview.src

\* C35: the slots of a pass are generated one after the other in index
\* order: while slot i is loading, exactly the slots before it have
\* returned their pair; and entry i of wallpapers and of previewImages is
\* the pair of slot i, both rendered from the image that slot loaded.
C35_SlotsSequentialInOrder ==
    /\ \A p \in PassIds :
          /\ passes[p].pc \in {"load", "decode", "fbLoad", "fbDecode"}
                => Len(passes[p].results) = passes[p].slot
          /\ \A n \in 1..Len(passes[p].results) :
                ArtifactPairOf(passes[p].results[n].fullRes,
                               passes[p].results[n].preview, p, n - 1)
    /\ Len(wallpapers) = Len(previewImages)
    /\ \A n \in 1..Len(wallpapers) :
          ArtifactPairOf(wallpapers[n], previewImages[n], wallpapers[n].pass, n - 1)

\* C35 witness: a pass whose first slot was rendered from the sampled
\* image and whose second slot from the fallback image is shown, slot by
\* slot, while another pass is loading its third slot.
C35_Witness ==
    /\ Len(wallpapers) = 3
    /\ wallpapers[1].src = "sampled"
    /\ wallpapers[2].src = "fallback"
    /\ \E p \in PassIds :
          /\ passes[p].pc = "load"
          /\ passes[p].slot = 2
          /\ Len(passes[p].results) = 2

\* ------------------------------------------------------------------------
\* Properties of the exposed state (SpecShow)
\* ------------------------------------------------------------------------

\* C18: in every state the consumer can observe, wallpapers, previewImages
\* and the error flags come from one and the same pass: slot by slot the
\* full-resolution artifact and the preview were rendered by that pass for
\* that slot, and the flags are those that pass reset (and its displayed
\* images have set since); before the first update all three are empty.
C18_AtomicReplacement ==
    /\ Len(wallpapers) = Len(previewImages)
    /\ Len(wallpapers) = Len(imageLoadErrors)
    /\ IF wallpapers = <<>>
       THEN errorsOf = 0
       ELSE \E p \in PassIds :
               /\ errorsOf = p
               /\ \A n \in 1..Len(wallpapers) :
                     /\ wallpapers[n].pass = p /\ wallpapers[n].slot = n - 1
                     /\ previewImages[n].pass = p /\ previewImages[n].slot = n - 1

\* C18 witness: the update of the second pass has replaced the output of
\* the first one (both callbacks have run, the one of pass 2 last): all
\* artifacts are of pass 2, and a displayed image of pass 2 has set a flag.
C18_Witness ==
    /\ passes[1].pc = "done"
    /\ passes[2].pc = "done"
    /\ Len(wallpapers) = 3
    /\ \A n \in 1..3 : wallpapers[n].pass = 2 /\ previewImages[n].pass = 2
    /\ imageLoadErrors = <<FALSE, TRUE, FALSE>>
    /\ errorsOf = 2

\* ------------------------------------------------------------------------
\* Properties of the compositor (SpecRender)
\* ------------------------------------------------------------------------

\* C6: the preview rectangle and the full-resolution rectangle of a slot
\* come from the same draw: each is the floor of the same fraction of its
\* canvas, so pw/PW - fw/FW lies in (-1/PW, 1/FW), and likewise in height.
C6_PreviewMatchesFullRes ==
    rnPc = "done" =>
        LET P == PreviewDimensions(rnFormat)
            F == FORMATS(rnFormat)
            dw == rnPreviewRect.width * F.width - rnFullRect.width * P.width
            dh == rnPreviewRect.height * F.height - rnFullRect.height * P.height
        IN  /\ -F.width < dw /\ dw < P.width
            /\ -F.height < dh /\ dh < P.height

\* the extent [o, o + r] of a rectangle on an axis of length dim: r lies
\* between floor(0.05 * dim) and floor(0.15 * dim), the extent is inside
\* [0, dim], and its centre is at most 1 away from dim / 2
AxisInBounds(dim, o, r) ==
    /\ (5 * dim) \div 100 <= r
    /\ r <= (15 * dim) \div 100
    /\ 0 <= o
    /\ o + r <= dim
    /\ -2 <= 2 * o + r - dim
    /\ 2 * o + r - dim <= 2

\* C19: on each of the four canvases (800x450, 400x711, 3840x2160,
\* 1080x1920) and for every draw, the accent rectangle has a width between
\* floor(0.05 W) and floor(0.15 W) and a height between floor(0.05 H) and
\* floor(0.15 H), lies inside the canvas and is centred within one pixel.
C19_RectangleBounds ==
    /\ rnPc \in {"preview", "done"} =>
          /\ AxisInBounds(PreviewDimensions(rnFormat).width,
                          rnPreviewRect.x, rnPreviewRect.width)
          /\ AxisInBounds(PreviewDimensions(rnFormat).height,
                          rnPreviewRect.y, rnPreviewRect.height)
    /\ rnPc = "done" =>
          /\ AxisInBounds(FORMATS(rnFormat).width, rnFullRect.x, rnFullRect.width)
          /\ AxisInBounds(FORMATS(rnFormat).height, rnFullRect.y, rnFullRect.height)

\* C19 witness: a phone render whose preview rectangle cannot be centred
\* exactly (711 minus its height is odd, so the floor moves it up by half
\* a pixel) and whose full-resolution rectangle is wider than 5% of 1080.
C19_Witness ==
    /\ rnPc = "done"
    /\ rnFormat = "phone"
    /\ (711 - rnPreviewRect.height) % 2 = 1
    /\ 2 * rnPreviewRect.y + rnPreviewRect.height = 710
    /\ rnFullRect.width > 54

\* scale is the larger of W / w and H / h, as fractions
ScaleIsMax(fit, img, dims) ==
    /\ fit.scale.num * img.width >= dims.width * fit.scale.den
    /\ fit.scale.num * img.height >= dims.height * fit.scale.den
    /\ \/ fit.scale.num * img.width = dims.width * fit.scale.den
       \/ fit.scale.num * img.height = dims.height * fit.scale.den

\* on one axis: the scaled size is at least the target, the offset is at
\* most 0, and offset + scaled size is at least the target
AxisCovered(ax) ==
    /\ ax.scaledExcess > 0 \/ (ax.scaledExcess = 0 /\ ax.scaledUlps >= 0)
    /\ ax.offsetExcess < 0 \/ (ax.offsetExcess = 0 /\ ax.offsetHalfUlps <= 0)
    /\ \/ ax.offsetExcess + 2 * ax.scaledExcess > 0
       \/ /\ ax.offsetExcess + 2 * ax.scaledExcess = 0
          /\ ax.offsetHalfUlps + 2 * ax.scaledUlps >= 0

\* on one axis: the scaled size equals the target
AxisExact(ax) == ax.scaledExcess = 0 /\ ax.scaledUlps = 0

\* on one axis: the scaled size exceeds the target, or it is the target up
\* to one unit in its last place, and the offset is the matching half
AxisCoveredWithinUlp(ax) ==
    /\ ax.scaledExcess >= 0
    /\ ax.scaledExcess = 0 => ax.scaledUlps \in {-1, 0, 1}
    /\ ax.offsetExcess = -ax.scaledExcess
    /\ ax.offsetHalfUlps = -ax.scaledUlps

\* the worked example: 4000x3000 on 3840x2160 gives scale 0.96, scaled
\* size 3840x2880 and vertical offset -360, all exact
ExampleFit ==
    (rnPc = "done" /\ rnFormat = "4k-desktop"
        /\ rnImage = [width |-> 4000, height |-> 3000]) =>
        /\ 100 * rnFullFit.scale.num = 96 * rnFullFit.scale.den
        /\ AxisExact(rnFullFit.horizontal)
        /\ rnFullFit.vertical.scaledExcess = (2880 - 2160) * rnFullFit.vertical.den
        /\ rnFullFit.vertical.scaledUlps = 0
        /\ rnFullFit.vertical.offsetExcess = -360 * 2 * rnFullFit.vertical.den
        /\ rnFullFit.vertical.offsetHalfUlps = 0

\* C20 (as claimed): for every source size and target, scale = max(W/w,
\* H/h) gives scale*w >= W and scale*h >= H with equality on at least one
\* axis, and the offsets satisfy x <= 0, y <= 0, x + scale*w >= W and
\* y + scale*h >= H; 4000x3000 on 3840x2160 gives 0.96, 3840x2880, -360.
C20_CoverFitExact ==
    /\ rnPc \in {"preview", "done"} =>
          /\ ScaleIsMax(rnPreviewFit, rnImage, PreviewDimensions(rnFormat))
          /\ AxisCovered(rnPreviewFit.horizontal)
          /\ AxisCovered(rnPreviewFit.vertical)
          /\ AxisExact(rnPreviewFit.horizontal) \/ AxisExact(rnPreviewFit.vertical)
    /\ rnPc = "done" =>
          /\ ScaleIsMax(rnFullFit, rnImage, FORMATS(rnFormat))
          /\ AxisCovered(rnFullFit.horizontal)
          /\ AxisCovered(rnFullFit.vertical)
          /\ AxisExact(rnFullFit.horizontal) \/ AxisExact(rnFullFit.vertical)
    /\ ExampleFit

\* C20 (amended): scale is max(W/w, H/h); on an axis where the scaled side
\* is not the target it exceeds the target and the offset is negative; on
\* the axis that determines the scale the double w * (W / w) is W up to
\* one unit in the last place of W, in either direction, and the offset is
\* half of that with the opposite sign; at least one axis is of the second
\* kind; the worked example is exact.
C20_CoverFitWithinOneUlp ==
    /\ rnPc \in {"preview", "done"} =>
          /\ ScaleIsMax(rnPreviewFit, rnImage, PreviewDimensions(rnFormat))
          /\ AxisCoveredWithinUlp(rnPreviewFit.horizontal)
          /\ AxisCoveredWithinUlp(rnPreviewFit.vertical)
          /\ \/ rnPreviewFit.horizontal.scaledExcess = 0
             \/ rnPreviewFit.vertical.scaledExcess = 0
    /\ rnPc = "done" =>
          /\ ScaleIsMax(rnFullFit, rnImage, FORMATS(rnFormat))
          /\ AxisCoveredWithinUlp(rnFullFit.horizontal)
          /\ AxisCoveredWithinUlp(rnFullFit.vertical)
          /\ \/ rnFullFit.horizontal.scaledExcess = 0
             \/ rnFullFit.vertical.scaledExcess = 0
    /\ ExampleFit

\* C20 witness: a 4280x2140 image on the 3840x2160 canvas: the height
\* determines the scale, 2140 * (2160 / 2140) is one unit in the last place
\* below 2160 and the vertical offset is half a unit above 0, while the
\* width is scaled beyond 3840.
C20_Witness ==
    /\ rnPc = "done"
    /\ rnFormat = "4k-desktop"
    /\ rnImage = [width |-> 4280, height |-> 2140]
    /\ rnFullFit.vertical.scaledExcess = 0
    /\ rnFullFit.vertical.scaledUlps = -1
    /\ rnFullFit.vertical.offsetHalfUlps = 1
    /\ rnFullFit.horizontal.scaledExcess > 0

\* a data URL that is empty, 'data:,' or shorter than 100 characters
ImplausibleDataUrl(d) == d.chars = 0 \/ d.blank \/ d.chars < 100

\* C21: both encodings are validated: a slot whose preview or whose
\* full-resolution data URL is empty, 'data:,' or shorter than 100
\* characters is a failure, and no { fullRes, preview } pair is returned.
C21_BothEncodingsValidated ==
    rnPc = "done" =>
        /\ ~ImplausibleDataUrl(rnPreview)
        /\ ~ImplausibleDataUrl(rnFullRes)

====
